---- MODULE Spec2Model ----
(***************************************************************************)
(* Competition management server (rachelbiru/orbit_ai): the stored tables, *)
(* the HTTP route handlers of server/routes.ts with the storage calls they *)
(* make, and the derived views the dashboards compute from fetched data.   *)
(*                                                                         *)
(* A step of the model is one HTTP request handled to completion, the      *)
(* delivery of its answer, or one tick of the wall clock.  `resp` holds    *)
(* the request being answered and its answer until the answer is sent.     *)
(* `dialog` holds the score sheet a judge has open on the judge dashboard. *)
(* `slotForm` holds the slot form open on the manager's schedule tab.      *)
(* `calls` holds the handlers that are followed one storage call at a      *)
(* time, where two requests run side by side.                              *)
(* Arrays of ids (judgeIds) are modelled as sets: the code only ever tests *)
(* membership (includes) and emptiness (length) on them.                   *)
(***************************************************************************)
EXTENDS Integers, FiniteSets, Sequences, TLC

VARIABLES users, events, stations, teams, slots, scores, authorizedEmails,
          aiFeedbackSessions, nextId, writes, now, resp, dialog, slotForm, calls

\* the database tables (with their serial counters)
store == <<users, events, stations, teams, slots, scores, authorizedEmails,
          aiFeedbackSessions, nextId>>
vars == <<users, events, stations, teams, slots, scores, authorizedEmails,
          aiFeedbackSessions, nextId, writes, now, resp, dialog, slotForm,
          calls>>

\* ------------------------------------------------------------------ bounds
\* The model follows the database through at most MaxWrites requests that
\* change a table; requests that only read, that are refused, or that leave
\* every table as it was, are not counted.
MaxWrites == 2
\* The wall clock runs from 0 to MaxTime.
MaxTime == 5

\* ------------------------------------------------------------------ values
NoId == 0          \* null / undefined id
Anonymous == 0     \* a request without an authenticated session
Roles == {"admin", "manager", "judge"}

\* ------------------------------------------------------------------ seed
\* seedDatabase on an empty database: manager, admin, judge1..3 (serial ids
\* in creation order), one event managed by the manager, two stations, two
\* teams, one slot an hour ahead and one slot that ended half an hour ago
\* (the clock counts half hours).
SeedNow == 2
SeedUsers ==
  { [id |-> 1, role |-> "manager"], [id |-> 2, role |-> "admin"],
    [id |-> 3, role |-> "judge"], [id |-> 4, role |-> "judge"],
    [id |-> 5, role |-> "judge"] }
SeedEvents == { [id |-> 1, managerId |-> 1, judgeIds |-> {3, 4, 5}] }
\* a rubric is its criteria: criterion name -> maxPoints
RoverRubric == [Speed |-> 10, Accuracy |-> 10, Innovation |-> 5]
RepairRubric == [Technique |-> 15, Safety |-> 10]
SeedStations == { [id |-> 1, eventId |-> 1, rubric |-> RoverRubric],
                  [id |-> 2, eventId |-> 1, rubric |-> RepairRubric] }
SeedTeams == { [id |-> 1, eventId |-> 1, category |-> "ElementarySchool"],
               [id |-> 2, eventId |-> 1, category |-> "MiddleSchool"] }
SeedSlots ==
  { [id |-> 1, eventId |-> 1, stationId |-> 1, teamId |-> 1,
     startTime |-> SeedNow + 2, endTime |-> SeedNow + 3,
     judgeIds |-> {3}, captainJudgeId |-> 3, status |-> "pending"],
    [id |-> 2, eventId |-> 1, stationId |-> 1, teamId |-> 2,
     startTime |-> SeedNow - 2, endTime |-> SeedNow - 1,
     judgeIds |-> {3}, captainJudgeId |-> 3, status |-> "pending"] }

\* ------------------------------------------------------------------ storage reads
getUser(id) == { u \in users : u.id = id }
getJudges == { u \in users : u.role = "judge" }
getEvents == events
getEvent(id) == { e \in events : e.id = id }
getStations(eventId) == { s \in stations : s.eventId = eventId }
getTeams(eventId) == { t \in teams : t.eventId = eventId }
getSlots(eventId) == { s \in slots : s.eventId = eventId }
getSlotById(slotId) == { s \in slots : s.id = slotId }

\* inner join of scores with stations on stationId, filtered by the station's event
getScores(eventId) ==
  { sc \in scores : \E st \in stations : st.id = sc.stationId /\ st.eventId = eventId }

getJudgeSlots(eventId, judgeId) == { s \in getSlots(eventId) : judgeId \in s.judgeIds }

getJudgeTeamIds(eventId, judgeId) ==
  { s.teamId : s \in { x \in getJudgeSlots(eventId, judgeId) : x.teamId # NoId } }

getJudgeScores(eventId, judgeId) ==
  IF getJudgeTeamIds(eventId, judgeId) = {} THEN {}
  ELSE { sc \in getScores(eventId) : sc.teamId \in getJudgeTeamIds(eventId, judgeId) }

\* the events of the judge's slots only
getJudgeEventsBySlots(judgeId) ==
  { e \in events : \E s \in getSlots(e.id) : judgeId \in s.judgeIds }

\* the event's own judgeIds first, then the judgeIds of the event's slots
getJudgeEvents(judgeId) ==
  { e \in events : \/ judgeId \in e.judgeIds
                   \/ \E s \in getSlots(e.id) : judgeId \in s.judgeIds }


\* ------------------------------------------------------------------ JSON and JavaScript
\* res.json(rows) on the server and res.json() in the client hooks: a Date
\* column travels as its ISO-8601 string, and the response schemas
\* (z.custom without a check) hand the parsed object on unchanged.
IsoString(t) == [type |-> "string", iso |-> t]
DateOf(t) == [type |-> "Date", ms |-> t]
SlotToJson(s) == [s EXCEPT !.startTime = IsoString(s.startTime),
                           !.endTime = IsoString(s.endTime)]
\* useSlots(eventId): what the dashboards hold for an event's schedule
FetchedSlots(eventId) == { SlotToJson(s) : s \in getSlots(eventId) }

\* ToNumber of the operand of a relational comparison: a Date gives its time
\* value; a string is read as a numeric literal, which an ISO date string
\* is not, so it gives NaN.
ToNumber(v) == IF v.type = "Date" THEN [nan |-> FALSE, n |-> v.ms]
               ELSE [nan |-> TRUE, n |-> 0]
\* a < b and a >= b of JavaScript: false whenever an operand is NaN
JsLess(a, b) == /\ ~ToNumber(a).nan /\ ~ToNumber(b).nan
                /\ ToNumber(a).n < ToNumber(b).n
JsGreaterEq(a, b) == /\ ~ToNumber(a).nan /\ ~ToNumber(b).nan
                     /\ ToNumber(a).n >= ToNumber(b).n

\* ------------------------------------------------------------------ slot status engine
\* the same function without the score check
getSlotStatusTimeOnly(slot, scs) ==
  IF JsLess(DateOf(now), slot.startTime) THEN "pending"
  ELSE IF JsGreaterEq(DateOf(now), slot.startTime) /\ JsLess(DateOf(now), slot.endTime)
       THEN "ongoing"
  ELSE "behind"

\* scoring-matrix getSlotStatus(slot, scores), with now = new Date()
getSlotStatus(slot, scs) ==
  IF \E s \in scs : s.slotId = slot.id THEN "complete"
  ELSE IF JsLess(DateOf(now), slot.startTime) THEN "pending"
  ELSE IF JsGreaterEq(DateOf(now), slot.startTime) /\ JsLess(DateOf(now), slot.endTime)
       THEN "ongoing"
  ELSE "behind"

\* ------------------------------------------------------------------ scoring matrix views
\* the slot the views' slots.find(...) picks among the slots that match
\* (the first in the fetched list, which comes in id order)
firstSlot(matching) == CHOOSE s \in matching : \A x \in matching : s.id <= x.id
\* the last of them instead
lastSlot(matching) == CHOOSE s \in matching : \A x \in matching : s.id >= x.id

\* TeamView: the cell of row team, column station; "-" where no slot is found
teamViewCell(teamId, stationId, fetched, scs) ==
  LET matching == { s \in fetched : s.teamId = teamId /\ s.stationId = stationId }
  IN IF matching = {} THEN "-" ELSE getSlotStatus(firstSlot(matching), scs)

\* a Station view that looks at the last slot of the pair
stationViewCellLast(stationId, teamId, fetched, scs) ==
  LET matching == { s \in fetched : s.stationId = stationId /\ s.teamId = teamId }
  IN IF matching = {} THEN "-" ELSE getSlotStatus(lastSlot(matching), scs)

\* StationView: the cell of row station, column team
stationViewCell(stationId, teamId, fetched, scs) ==
  LET matching == { s \in fetched : s.stationId = stationId /\ s.teamId = teamId }
  IN IF matching = {} THEN "-" ELSE getSlotStatus(firstSlot(matching), scs)

\* JudgeView: judgeStations.get(judge.id), the stations of the judge's slots
judgeStations(judgeId, fetched) ==
  { s.stationId : s \in { x \in fetched : judgeId \in x.judgeIds } }
\* JudgeView: the cell of judge, row team, column station
judgeViewCell(judgeId, teamId, stationId, fetched, scs) ==
  LET matching == { s \in fetched : /\ s.teamId = teamId /\ s.stationId = stationId
                                    /\ judgeId \in s.judgeIds }
  IN IF matching = {} THEN "-" ELSE getSlotStatus(firstSlot(matching), scs)

\* ------------------------------------------------------------------ judge tracking page
\* slotDetails: the judges of the slot that getJudgeById finds in the
\* fetched judge list (ids it does not find are dropped by filter(Boolean))
assignedJudges(slot, allJudges) == { j \in allJudges : j.id \in slot.judgeIds }
judgesScored(slot, allJudges, scs) ==
  { j \in assignedJudges(slot, allJudges) :
      \E s \in scs : s.slotId = slot.id /\ s.judgeId = j.id }
judgesNotScored(slot, allJudges, scs) ==
  { j \in assignedJudges(slot, allJudges) :
      ~\E s \in scs : s.slotId = slot.id /\ s.judgeId = j.id }

\* the same classification with "some judge scored" taken for "all scored"
scoringStatusAnyScored(slot, allJudges, scs) ==
  IF assignedJudges(slot, allJudges) = {} THEN "no_judges"
  ELSE IF judgesScored(slot, allJudges, scs) # {} THEN "complete"
  ELSE "pending"

scoringStatus(slot, allJudges, scs) ==
  LET hasJudges == assignedJudges(slot, allJudges) # {}
      allScored == hasJudges /\ judgesNotScored(slot, allJudges, scs) = {}
      someScored == /\ judgesScored(slot, allJudges, scs) # {}
                    /\ judgesNotScored(slot, allJudges, scs) # {}
  IN IF ~hasJudges THEN "no_judges"
     ELSE IF allScored THEN "complete"
     ELSE IF someScored THEN "partial"
     ELSE "pending"

\* overallStats.behind of the judge tracking page: the fetched slots whose
\* stored status reads "behind"
overallBehind(fetched) == { s \in fetched : s.status = "behind" }

\* ------------------------------------------------------------------ team tracking page
\* teamStats: the status shown for a team at a station
teamStationStatus(teamId, stationId, fetched, scs) ==
  LET matching == { s \in fetched : s.teamId = teamId /\ s.stationId = stationId }
      hasScore == \E sc \in scs : sc.teamId = teamId /\ sc.stationId = stationId
  IN IF matching = {} THEN "no-slot"
     ELSE IF hasScore THEN "complete"
     ELSE IF firstSlot(matching).status = "behind" THEN "behind"
     ELSE "pending"

\* ------------------------------------------------------------------ sessions
\* passport.deserializeUser loads the session's user row on every request;
\* a session whose user row is gone is not authenticated.
\* the sessions followed: none, and those of the seeded manager, admin, judge1
\* and judge2 for as long as their user rows exist
SessionInputs == { 1, 2, 3, 4 }
Callers == {Anonymous} \cup { u.id : u \in { x \in users : x.id \in SessionInputs } }
isAuthenticated(c) == \E u \in users : u.id = c
Role(c) == IF isAuthenticated(c) THEN (CHOOSE u \in users : u.id = c).role ELSE "none"

\* a guard that lets every caller through
JudgeNeverBlocked(c) == FALSE

\* the guard most routes open with:
\*   req.isAuthenticated() && req.user?.role === "judge"
JudgeBlocked(c) == isAuthenticated(c) /\ Role(c) = "judge"

\* ------------------------------------------------------------------ requests and answers
\* op: the route; caller, role: the session's user at the time of the request;
\* arg: the id the request names (path parameter or body), NoId where the
\* handler answers before it reads one; reqRole: the role a body asks for,
\* where a route reads one
NoRequest == [op |-> "none", caller |-> Anonymous, role |-> "none", arg |-> NoId,
              reqRole |-> "", status |-> 0, body |-> {}]
\* no request is being answered
Idle == resp = NoRequest

RespondFor(op, c, arg, reqRole, status, body) ==
  resp' = [op |-> op, caller |-> c, role |-> Role(c), arg |-> arg,
           reqRole |-> reqRole, status |-> status, body |-> body]
Respond(op, c, arg, status, body) == RespondFor(op, c, arg, "", status, body)

\* the request ends without a storage write
Refuse(op, c, arg, status) ==
  /\ Respond(op, c, arg, status, {})
  /\ UNCHANGED <<store, writes, now, dialog, slotForm, calls>>

\* the request ends with a body read from storage
Answer(op, c, arg, body) ==
  /\ Respond(op, c, arg, 200, body)
  /\ UNCHANGED <<store, writes, now, dialog, slotForm, calls>>

CanWrite == writes < MaxWrites
Written == /\ UNCHANGED <<now, dialog, slotForm, calls, aiFeedbackSessions>>
           /\ writes' = IF store' = store THEN writes ELSE writes + 1
Bump(table) == nextId' = [nextId EXCEPT ![table] = @ + 1]

\* db.update(table).set(data): the fields the body carries replace the row's
Patch(row, data) == [f \in DOMAIN row |-> IF f \in DOMAIN data THEN data[f] ELSE row[f]]
PatchRow(rows, id, data) == { IF r.id = id THEN Patch(r, data) ELSE r : r \in rows }

\* ids a request may name: every stored id of the table and one that is not stored
IdsOf(rows, table) == { r.id : r \in rows } \cup { nextId[table] }
\* the same for the larger tables: the oldest stored row and an id that is not stored
TargetsOf(rows, table) ==
  { r.id : r \in { x \in rows : \A y \in rows : x.id <= y.id } } \cup { nextId[table] }
\* event ids a client has seen: those of the stored events and of the stored
\* stations, teams and slots
EventIdInputs ==
  { e.id : e \in events } \cup { s.eventId : s \in stations }
  \cup { tm.eventId : tm \in teams } \cup { s.eventId : s \in slots }
\* the judges a client picks from the judge list (those whose sessions are
\* followed), and an id that is not stored
JudgeTargets ==
  { u.id : u \in { x \in users : x.role = "judge" /\ x.id \in SessionInputs } }
  \cup { nextId.users }
\* values a request body may carry
ManagerIdInputs == {NoId} \cup { u.id : u \in { x \in users : x.role = "manager" } }
JudgeIdSetInputs == { {}, {4}, {3, 4} }

\* ------------------------------------------------------------------ events
\* the list with the manager's filter left out
ManagerSeesAllEvents(managerId) == getEvents

\* events.filter(e => e.managerId === managerId)
managerEvents(managerId) == { e \in getEvents : e.managerId = managerId }

EventsList ==
  /\ Idle
  /\ \E c \in Callers :
    IF ~isAuthenticated(c) THEN Refuse("events.list", c, NoId, 401)
    ELSE IF Role(c) = "judge" THEN Refuse("events.list", c, NoId, 403)
    ELSE IF Role(c) = "admin" THEN Answer("events.list", c, NoId, getEvents)
    ELSE IF Role(c) = "manager" THEN Answer("events.list", c, NoId, managerEvents(c))
    ELSE Answer("events.list", c, NoId, {})

EventsCreate ==
  /\ Idle
  /\ \E c \in Callers :
    IF JudgeBlocked(c) THEN Refuse("events.create", c, NoId, 403)
    ELSE \E m \in ManagerIdInputs :
         LET e == [id |-> nextId.events, managerId |-> m, judgeIds |-> {}]
         IN /\ CanWrite
            /\ events' = events \cup {e}
            /\ Bump("events")
            /\ Respond("events.create", c, NoId, 201, {e})
            /\ UNCHANGED <<users, stations, teams, slots, scores, authorizedEmails>>
            /\ Written

\* updateEvent(id, {...req.body}): the body's fields are stored as sent
EventsUpdate ==
  /\ Idle
  /\ \E c \in Callers :
    IF JudgeBlocked(c) THEN Refuse("events.update", c, NoId, 403)
    ELSE \E id \in IdsOf(events, "events"), m \in ManagerIdInputs :
         IF getEvent(id) = {} THEN Refuse("events.update", c, id, 404)
    ELSE /\ CanWrite
         /\ events' = PatchRow(events, id, [managerId |-> m])
         /\ Respond("events.update", c, id, 200, {})
         /\ UNCHANGED <<users, stations, teams, slots, scores, authorizedEmails, nextId>>
         /\ Written

EventsUpdateJudges ==
  /\ Idle
  /\ \E c \in Callers :
    IF JudgeBlocked(c) THEN Refuse("events.judges", c, NoId, 403)
    ELSE \E id \in IdsOf(events, "events"), js \in JudgeIdSetInputs :
         IF getEvent(id) = {} THEN Refuse("events.judges", c, id, 404)
    ELSE /\ CanWrite
         /\ events' = PatchRow(events, id, [judgeIds |-> js])
         /\ Respond("events.judges", c, id, 200, {})
         /\ UNCHANGED <<users, stations, teams, slots, scores, authorizedEmails, nextId>>
         /\ Written

\* deleteEvent removes the event row only: no table references another
EventsDelete ==
  /\ Idle
  /\ \E c \in Callers :
    IF JudgeBlocked(c) THEN Refuse("events.delete", c, NoId, 403)
    ELSE \E id \in IdsOf(events, "events") :
         /\ CanWrite
         /\ events' = { e \in events : e.id # id }
         /\ Respond("events.delete", c, id, 204, {})
         /\ UNCHANGED <<users, stations, teams, slots, scores, authorizedEmails, nextId>>
         /\ Written

\* ---- storage.duplicateEvent
\* position of a row among the rows copied before it (rows are read in id order)
Rank(r, rows) == Cardinality({ x \in rows : x.id < r.id })
dupStationId(s, eventId) == nextId.stations + Rank(s, getStations(eventId))
dupTeamId(t, eventId) == nextId.teams + Rank(t, getTeams(eventId))
\* slots whose team and station both got a copy
dupCopiedSlots(eventId) ==
  { s \in getSlots(eventId) : /\ \E t \in getTeams(eventId) : t.id = s.teamId
                              /\ \E st \in getStations(eventId) : st.id = s.stationId }
dupStations(eventId) ==
  { [id |-> dupStationId(s, eventId), eventId |-> nextId.events, rubric |-> s.rubric]
    : s \in getStations(eventId) }
dupTeams(eventId) ==
  { [id |-> dupTeamId(t, eventId), eventId |-> nextId.events, category |-> t.category]
    : t \in getTeams(eventId) }
dupSlots(eventId) ==
  { [id |-> nextId.slots + Rank(s, dupCopiedSlots(eventId)),
     eventId |-> nextId.events,
     stationId |-> dupStationId(CHOOSE st \in getStations(eventId) : st.id = s.stationId, eventId),
     teamId |-> dupTeamId(CHOOSE tm \in getTeams(eventId) : tm.id = s.teamId, eventId),
     startTime |-> s.startTime, endTime |-> s.endTime,
     judgeIds |-> s.judgeIds, captainJudgeId |-> s.captainJudgeId,
     status |-> "pending"] : s \in dupCopiedSlots(eventId) }

EventsDuplicate ==
  /\ Idle
  /\ \E c \in Callers :
    IF JudgeBlocked(c) THEN Refuse("events.duplicate", c, NoId, 403)
    ELSE \E id \in IdsOf(events, "events") :
         IF getEvent(id) = {} THEN Refuse("events.duplicate", c, id, 404)
    ELSE LET orig == CHOOSE e \in events : e.id = id
             copy == [id |-> nextId.events, managerId |-> orig.managerId,
                      judgeIds |-> orig.judgeIds]
         IN /\ CanWrite
            /\ events' = events \cup {copy}
            /\ stations' = stations \cup dupStations(id)
            /\ teams' = teams \cup dupTeams(id)
            /\ slots' = slots \cup dupSlots(id)
            /\ nextId' = [nextId EXCEPT
                 !.events = @ + 1,
                 !.stations = @ + Cardinality(getStations(id)),
                 !.teams = @ + Cardinality(getTeams(id)),
                 !.slots = @ + Cardinality(dupCopiedSlots(id))]
            /\ Respond("events.duplicate", c, id, 201, {copy})
            /\ UNCHANGED <<users, scores, authorizedEmails>>
            /\ Written

\* ------------------------------------------------------------------ judges (users)
JudgesList ==
  /\ Idle
  /\ \E c \in Callers :
    IF JudgeBlocked(c) THEN Refuse("judges.list", c, NoId, 403)
    ELSE Answer("judges.list", c, NoId, getJudges)

\* getJudgesWithEvents: each judge with the events whose judgeIds name the judge
JudgesWithEvents ==
  /\ Idle
  /\ \E c \in Callers :
    IF JudgeBlocked(c) THEN Refuse("judges.withEvents", c, NoId, 403)
    ELSE Answer("judges.withEvents", c, NoId,
                { [id |-> j.id, role |-> j.role,
                   assignedEvents |-> { e \in getEvents : j.id \in e.judgeIds }]
                  : j \in getJudges })

\* createUser({...req.body, role: "judge"}); a username already taken fails
\* the unique constraint and is answered 400
JudgesCreate ==
  /\ Idle
  /\ \E c \in Callers :
    IF JudgeBlocked(c) THEN Refuse("judges.create", c, NoId, 403)
    ELSE \E taken \in BOOLEAN :
         IF taken THEN Refuse("judges.create", c, NoId, 400)
    ELSE LET u == [id |-> nextId.users, role |-> "judge"]
         IN /\ CanWrite
            /\ users' = users \cup {u}
            /\ Bump("users")
            /\ Respond("judges.create", c, NoId, 201, {u})
            /\ UNCHANGED <<events, stations, teams, slots, scores, authorizedEmails>>
            /\ Written

\* updateUser(id, req.body): the body's fields, role included, are stored as
\* sent; a body may carry profile fields only (name, phone: not modelled)
UserPatchInputs == { [name |-> "n"], [role |-> "manager"] }
JudgesUpdate ==
  /\ Idle
  /\ \E c \in Callers :
    IF JudgeBlocked(c) THEN Refuse("judges.update", c, NoId, 403)
    ELSE \E id \in JudgeTargets, data \in UserPatchInputs :
         IF getUser(id) = {} THEN Refuse("judges.update", c, id, 404)
    ELSE /\ CanWrite
         /\ users' = PatchRow(users, id, data)
         /\ Respond("judges.update", c, id, 200, {})
         /\ UNCHANGED <<events, stations, teams, slots, scores, authorizedEmails, nextId>>
         /\ Written

\* deleteUser removes the user row only; slots and events keep the id in judgeIds
JudgesDelete ==
  /\ Idle
  /\ \E c \in Callers :
    IF JudgeBlocked(c) THEN Refuse("judges.delete", c, NoId, 403)
    ELSE \E id \in JudgeTargets :
         /\ CanWrite
         /\ users' = { u \in users : u.id # id }
         /\ Respond("judges.delete", c, id, 204, {})
         /\ UNCHANGED <<events, stations, teams, slots, scores, authorizedEmails, nextId>>
         /\ Written

\* ------------------------------------------------------------------ judge-scoped reads
JudgeEvents ==
  /\ Idle
  /\ \E c \in Callers :
    IF ~isAuthenticated(c) THEN Refuse("judge.events", c, NoId, 401)
    ELSE Answer("judge.events", c, NoId, getJudgeEvents(c))

JudgeTeams ==
  /\ Idle
  /\ \E c \in Callers, eventId \in EventIdInputs :
    IF ~isAuthenticated(c) THEN Refuse("judge.teams", c, eventId, 401)
    ELSE Answer("judge.teams", c, eventId,
                { t \in getTeams(eventId) : t.id \in getJudgeTeamIds(eventId, c) })

JudgeSlots ==
  /\ Idle
  /\ \E c \in Callers, eventId \in EventIdInputs :
    IF ~isAuthenticated(c) THEN Refuse("judge.slots", c, eventId, 401)
    ELSE Answer("judge.slots", c, eventId, getJudgeSlots(eventId, c))

JudgeScores ==
  /\ Idle
  /\ \E c \in Callers, eventId \in EventIdInputs :
    IF ~isAuthenticated(c) THEN Refuse("judge.scores", c, eventId, 401)
    ELSE Answer("judge.scores", c, eventId, getJudgeScores(eventId, c))

\* ------------------------------------------------------------------ stations
RubricInputs == { [Speed |-> 5] }

StationsList ==
  /\ Idle
  /\ \E c \in Callers, eventId \in IdsOf(events, "events") :
    IF JudgeBlocked(c) /\ ~\E e \in getJudgeEvents(c) : e.id = eventId
    THEN Refuse("stations.list", c, eventId, 403)
    ELSE Answer("stations.list", c, eventId, getStations(eventId))

StationsCreate ==
  /\ Idle
  /\ \E c \in Callers :
    IF JudgeBlocked(c) THEN Refuse("stations.create", c, NoId, 403)
    ELSE \E eventId \in EventIdInputs, rubric \in RubricInputs :
         LET s == [id |-> nextId.stations, eventId |-> eventId, rubric |-> rubric]
         IN /\ CanWrite
            /\ stations' = stations \cup {s}
            /\ Bump("stations")
            /\ Respond("stations.create", c, eventId, 201, {s})
            /\ UNCHANGED <<users, events, teams, slots, scores, authorizedEmails>>
            /\ Written

StationsUpdate ==
  /\ Idle
  /\ \E c \in Callers :
    IF JudgeBlocked(c) THEN Refuse("stations.update", c, NoId, 403)
    ELSE \E id \in TargetsOf(stations, "stations"), rubric \in RubricInputs :
         IF ~\E s \in stations : s.id = id THEN Refuse("stations.update", c, id, 404)
    ELSE /\ CanWrite
         /\ stations' = PatchRow(stations, id, [rubric |-> rubric])
         /\ Respond("stations.update", c, id, 200, {})
         /\ UNCHANGED <<users, events, teams, slots, scores, authorizedEmails, nextId>>
         /\ Written

StationsDelete ==
  /\ Idle
  /\ \E c \in Callers :
    IF JudgeBlocked(c) THEN Refuse("stations.delete", c, NoId, 403)
    ELSE \E id \in TargetsOf(stations, "stations") :
         /\ CanWrite
         /\ stations' = { s \in stations : s.id # id }
         /\ Respond("stations.delete", c, id, 204, {})
         /\ UNCHANGED <<users, events, teams, slots, scores, authorizedEmails, nextId>>
         /\ Written

\* ------------------------------------------------------------------ teams
CategoryInputs == { "HighSchool" }

TeamsList ==
  /\ Idle
  /\ \E c \in Callers :
    IF JudgeBlocked(c) THEN Refuse("teams.list", c, NoId, 403)
    ELSE \E eventId \in EventIdInputs :
         Answer("teams.list", c, eventId, getTeams(eventId))

TeamsCreate ==
  /\ Idle
  /\ \E c \in Callers :
    IF JudgeBlocked(c) THEN Refuse("teams.create", c, NoId, 403)
    ELSE \E eventId \in EventIdInputs, category \in CategoryInputs :
         LET tm == [id |-> nextId.teams, eventId |-> eventId, category |-> category]
         IN /\ CanWrite
            /\ teams' = teams \cup {tm}
            /\ Bump("teams")
            /\ Respond("teams.create", c, eventId, 201, {tm})
            /\ UNCHANGED <<users, events, stations, slots, scores, authorizedEmails>>
            /\ Written

TeamsUpdate ==
  /\ Idle
  /\ \E c \in Callers :
    IF JudgeBlocked(c) THEN Refuse("teams.update", c, NoId, 403)
    ELSE \E id \in TargetsOf(teams, "teams"), category \in CategoryInputs :
         IF ~\E tm \in teams : tm.id = id THEN Refuse("teams.update", c, id, 404)
    ELSE /\ CanWrite
         /\ teams' = PatchRow(teams, id, [category |-> category])
         /\ Respond("teams.update", c, id, 200, {})
         /\ UNCHANGED <<users, events, stations, slots, scores, authorizedEmails, nextId>>
         /\ Written

TeamsDelete ==
  /\ Idle
  /\ \E c \in Callers :
    IF JudgeBlocked(c) THEN Refuse("teams.delete", c, NoId, 403)
    ELSE \E id \in TargetsOf(teams, "teams") :
         /\ CanWrite
         /\ teams' = { tm \in teams : tm.id # id }
         /\ Respond("teams.delete", c, id, 204, {})
         /\ UNCHANGED <<users, events, stations, slots, scores, authorizedEmails, nextId>>
         /\ Written

\* ------------------------------------------------------------------ slots
\* start and end times a request may carry (the server stores them unchecked)
TimeInputs == { <<1, 3>>, <<3, 1>> }
SlotBodyInputs ==
  { [eventId |-> 1, stationId |-> 2, teamId |-> 1,
     startTime |-> w[1], endTime |-> w[2],
     judgeIds |-> js, captainJudgeId |-> NoId] : w \in TimeInputs, js \in JudgeIdSetInputs }
\* a body may carry any of the slot's columns: a new window, or new judges
\* (the tracking page's assignment with no judge ticked sends judgeIds alone)
SlotPatchInputs ==
  { [startTime |-> w[1], endTime |-> w[2]] : w \in TimeInputs }
  \cup { [judgeIds |-> js] : js \in JudgeIdSetInputs }

SlotsList ==
  /\ Idle
  /\ \E c \in Callers :
    IF JudgeBlocked(c) THEN Refuse("slots.list", c, NoId, 403)
    ELSE \E eventId \in EventIdInputs :
         Answer("slots.list", c, eventId, FetchedSlots(eventId))

\* the handler of POST /api/slots for the session's user c and a body
PostSlot(c, body) ==
  IF JudgeBlocked(c)
  THEN /\ Respond("slots.create", c, NoId, 403, {})
       /\ UNCHANGED <<store, writes, now>>
  ELSE LET s == [id |-> nextId.slots, eventId |-> body.eventId,
                 stationId |-> body.stationId, teamId |-> body.teamId,
                 startTime |-> body.startTime, endTime |-> body.endTime,
                 judgeIds |-> body.judgeIds, captainJudgeId |-> body.captainJudgeId,
                 status |-> "pending"]
       IN /\ CanWrite
          /\ slots' = slots \cup {s}
          /\ Bump("slots")
          /\ Respond("slots.create", c, body.eventId, 201, {SlotToJson(s)})
          /\ UNCHANGED <<users, events, stations, teams, scores, authorizedEmails,
                         aiFeedbackSessions>>
          /\ writes' = writes + 1
          /\ UNCHANGED now

SlotsCreate ==
  /\ Idle
  /\ \E c \in Callers : \E body \in SlotBodyInputs : PostSlot(c, body)
  /\ UNCHANGED <<dialog, slotForm, calls>>

\* the handler of PUT /api/slots/:id for the session's user c, an id and a body
PutSlot(c, id, data) ==
  IF JudgeBlocked(c)
  THEN /\ Respond("slots.update", c, NoId, 403, {})
       /\ UNCHANGED <<store, writes, now>>
  ELSE IF getSlotById(id) = {}
  THEN /\ Respond("slots.update", c, id, 404, {})
       /\ UNCHANGED <<store, writes, now>>
  ELSE /\ CanWrite
       /\ slots' = PatchRow(slots, id, data)
       /\ Respond("slots.update", c, id, 200, {})
       /\ UNCHANGED <<users, events, stations, teams, scores, authorizedEmails,
                      aiFeedbackSessions, nextId>>
       /\ writes' = IF slots' = slots THEN writes ELSE writes + 1
       /\ UNCHANGED now

SlotsUpdate ==
  /\ Idle
  /\ \E c \in Callers : \E id \in TargetsOf(slots, "slots"), data \in SlotPatchInputs :
       PutSlot(c, id, data)
  /\ UNCHANGED <<dialog, slotForm, calls>>

SlotsDelete ==
  /\ Idle
  /\ \E c \in Callers :
    IF JudgeBlocked(c) THEN Refuse("slots.delete", c, NoId, 403)
    ELSE \E id \in TargetsOf(slots, "slots") :
         /\ CanWrite
         /\ slots' = { s \in slots : s.id # id }
         /\ Respond("slots.delete", c, id, 204, {})
         /\ UNCHANGED <<users, events, stations, teams, scores, authorizedEmails, nextId>>
         /\ Written

\* ------------------------------------------------------------------ schedule tab: slot form
\* ScheduleTab's form state: the slot being edited (NoId for a new slot), the
\* team and station, judgeIds in the order they were toggled on, the captain
\* picked (NoId for null), the start time and the duration; durations count
\* half hours, as the clock does.
SeqRange(q) == { q[i] : i \in 1 .. Len(q) }
\* the orders an array column may come back in
OrdersOf(set) == { q \in [1 .. Cardinality(set) -> set] : SeqRange(q) = set }
\* judges.filter(j => eventJudgeIds.includes(j.id)), for the seeded event
availableJudges == { j.id : j \in { u \in getJudges : \E e \in getEvent(1) : u.id \in e.judgeIds } }
\* the number typed into the duration field: 30, 0 or -30 minutes
DurationInputs == { 1, 0, -1 }
FormSessions == { c \in Callers : Role(c) \in {"manager", "admin"} }

\* "Add Slot", with a team, a station and a start time chosen
FormNew ==
  /\ slotForm = {}
  /\ slotForm' = { [editing |-> NoId, teamId |-> 1, stationId |-> 2, judgeIds |-> <<>>,
                   captainJudgeId |-> NoId, startTime |-> 3, duration |-> 1,
                   state |-> "editing"] }
  /\ UNCHANGED <<store, writes, now, resp, dialog, calls>>

\* startEdit(slot)
FormStartEdit ==
  /\ slotForm = {}
  /\ \E slot \in getSlots(1) : \E q \in OrdersOf(slot.judgeIds) :
       slotForm' = { [editing |-> slot.id, teamId |-> slot.teamId,
                      stationId |-> slot.stationId, judgeIds |-> q,
                      captainJudgeId |-> slot.captainJudgeId,
                      startTime |-> slot.startTime,
                      duration |-> slot.endTime - slot.startTime,
                      state |-> "editing"] }
  /\ UNCHANGED <<store, writes, now, resp, dialog, calls>>

\* prev.includes(id) ? prev.filter(j => j !== id) : [...prev, id]
toggled(prev, id) ==
  IF id \in SeqRange(prev) THEN SelectSeq(prev, LAMBDA j : j # id) ELSE Append(prev, id)

\* toggleJudge(id): setJudgeIds only
toggleJudge(f, id) == [f EXCEPT !.judgeIds = toggled(f.judgeIds, id)]

\* the badges that get clicked: those of judge1 and judge2
ToggleInputs == availableJudges \cap {3, 4}
FormToggleJudge ==
  /\ \E f \in slotForm, id \in ToggleInputs :
       /\ f.state = "editing"
       /\ slotForm' = { toggleJudge(f, id) }
  /\ UNCHANGED <<store, writes, now, resp, dialog, calls>>

\* the captain select, shown while judgeIds.length > 1, lists judgeIds
FormSelectCaptain ==
  /\ \E f \in slotForm :
       /\ f.state = "editing"
       /\ Len(f.judgeIds) > 1
       /\ \E v \in SeqRange(f.judgeIds) : slotForm' = { [f EXCEPT !.captainJudgeId = v] }
  /\ UNCHANGED <<store, writes, now, resp, dialog, calls>>

\* setDuration(Number(e.target.value))
FormSetDuration ==
  /\ \E f \in slotForm, d \in DurationInputs :
       /\ f.state = "editing"
       /\ slotForm' = { [f EXCEPT !.duration = d] }
  /\ UNCHANGED <<store, writes, now, resp, dialog, calls>>

\* "Cancel": resetForm
FormCancel ==
  /\ \E f \in slotForm : f.state = "editing"
  /\ slotForm' = {}
  /\ UNCHANGED <<store, writes, now, resp, dialog, calls>>

\* handleSubmit's data: end = start + duration, captainJudgeId || judgeIds[0]
formData(f) ==
  [eventId |-> 1, teamId |-> f.teamId, stationId |-> f.stationId,
   judgeIds |-> SeqRange(f.judgeIds),
   captainJudgeId |-> IF f.captainJudgeId # NoId THEN f.captainJudgeId ELSE f.judgeIds[1],
   startTime |-> f.startTime, endTime |-> f.startTime + f.duration]

\* handleSubmit, behind the button that is disabled without a judge or while
\* a request is pending: PUT for the slot being edited, POST otherwise
FormSubmit ==
  /\ Idle
  /\ \E f \in slotForm, c \in FormSessions :
       /\ f.state = "editing"
       /\ Len(f.judgeIds) # 0
       /\ slotForm' = { [f EXCEPT !.state = "posted"] }
       /\ IF f.editing # NoId THEN PutSlot(c, f.editing, formData(f))
          ELSE PostSlot(c, formData(f))
  /\ UNCHANGED <<dialog, calls>>

\* ------------------------------------------------------------------ scores
\* the score sheet a submission carries: criterion name -> awarded points
ScoreSheetInputs == { [Speed |-> 10, Accuracy |-> 8, Innovation |-> 5] }
\* the judge id a body carries: the caller's own, or another judge's
JudgeIdInputs(c) == (IF JudgeBlocked(c) THEN {c} ELSE {}) \cup {4}
\* the scoring dialog copies teamId and stationId from the slot it scores;
\* other clients send a slot id that is not stored, with a stored station's
\* id or with one that is not stored either
ScoreBodyInputs(c) ==
  { [slotId |-> s.id, teamId |-> s.teamId, stationId |-> s.stationId,
     judgeId |-> j, scores |-> sheet]
    : s \in slots, j \in JudgeIdInputs(c), sheet \in ScoreSheetInputs }
  \cup { [slotId |-> nextId.slots, teamId |-> 1, stationId |-> 1,
          judgeId |-> j, scores |-> sheet]
         : j \in JudgeIdInputs(c), sheet \in ScoreSheetInputs }
  \cup { [slotId |-> nextId.slots, teamId |-> 1, stationId |-> nextId.stations,
          judgeId |-> 4, scores |-> sheet] : sheet \in ScoreSheetInputs }

ScoresList ==
  /\ Idle
  /\ \E c \in Callers :
    IF JudgeBlocked(c) THEN Refuse("scores.list", c, NoId, 403)
    ELSE \E eventId \in EventIdInputs :
         Answer("scores.list", c, eventId, getScores(eventId))

\* a check that lets every judge submit for every slot
AnyJudgeMaySubmit(judgeId, slotId) == TRUE

\* slot && slot.judgeIds && slot.judgeIds.includes(judgeId)
JudgeAssignedToSlot(judgeId, slotId) ==
  \E s \in getSlotById(slotId) : judgeId \in s.judgeIds

\* the handler of POST /api/scores for the session's user c and a body;
\* storage.createScore: insert the row, then set the slot's status
PostScore(c, body) ==
  IF JudgeBlocked(c) /\ ~JudgeAssignedToSlot(c, body.slotId)
  THEN /\ Respond("scores.create", c, body.slotId, 403, {})
       /\ UNCHANGED <<store, writes, now>>
  ELSE LET sc == [id |-> nextId.scores, slotId |-> body.slotId,
                  teamId |-> body.teamId, stationId |-> body.stationId,
                  judgeId |-> body.judgeId, scores |-> body.scores]
       IN /\ CanWrite
          /\ scores' = scores \cup {sc}
          /\ slots' = PatchRow(slots, body.slotId, [status |-> "complete"])
          /\ Bump("scores")
          /\ Respond("scores.create", c, body.slotId, 201, {sc})
          /\ UNCHANGED <<users, events, stations, teams, authorizedEmails,
                         aiFeedbackSessions>>
          /\ writes' = writes + 1
          /\ UNCHANGED now

ScoresCreate ==
  /\ Idle
  /\ \E c \in Callers :
    \E body \in ScoreBodyInputs(c) : PostScore(c, body)
  /\ UNCHANGED <<dialog, slotForm, calls>>

\* ------------------------------------------------------------------ judge dashboard: score sheet
\* JudgeEventView shows a judge a card for every slot of the judge-scoped
\* slot list of one of the judge's events whose team is in the judge-scoped
\* team list and whose station is in the event's station list; the card's
\* score sheet holds the slot, the team, the station and its rubric as they
\* were fetched, and existingScore: a score of the judge-scoped score list
\* with the slot's id
OpenSheet ==
  /\ dialog = {}
  /\ \E c \in Callers, e \in events :
    /\ Role(c) = "judge"
    /\ e \in getJudgeEvents(c)
    /\ \E slot \in getJudgeSlots(e.id, c), st \in getStations(e.id) :
      /\ st.id = slot.stationId
      /\ \E tm \in getTeams(e.id) : tm.id = slot.teamId /\ tm.id \in getJudgeTeamIds(e.id, c)
      /\ dialog' = { [judge |-> c, slotId |-> slot.id, teamId |-> slot.teamId,
                     stationId |-> st.id, rubric |-> st.rubric,
                     existing |-> \E sc \in getJudgeScores(e.id, c) : sc.slotId = slot.id,
                     values |-> [n \in DOMAIN st.rubric |-> 0],
                     errors |-> {}, state |-> "editing"] }
  /\ UNCHANGED <<store, writes, now, resp, calls, slotForm>>

\* the dialog is dismissed
CloseSheet ==
  /\ \E s \in dialog : s.state # "posted"
  /\ dialog' = {}
  /\ UNCHANGED <<store, writes, now, resp, calls, slotForm>>

\* what the sheet's fields may hold at submission: for each criterion its
\* maxPoints or one point more, or -1 everywhere
SheetInputs(rubric) ==
  { [n \in DOMAIN rubric |-> IF n \in over THEN rubric[n] + 1 ELSE rubric[n]]
    : over \in SUBSET DOMAIN rubric }
  \cup { [n \in DOMAIN rubric |-> -1] }

\* a sheet that is never found wanting
sheetErrorsNone(rubric, values) == {}

\* onSubmit: the criteria c of the rubric with val > c.maxPoints, each of
\* which gets form.setError(`scores.${c.name}`)
sheetErrors(rubric, values) == { n \in DOMAIN rubric : values[n] > rubric[n] }

\* onSubmit: with an error the sheet stays open and nothing is sent;
\* otherwise submitScore posts the sheet's slot, team, station, the judge's
\* id and the values
SubmitSheet ==
  /\ Idle
  /\ \E s \in dialog : \E values \in SheetInputs(s.rubric) :
    IF sheetErrors(s.rubric, values) # {}
    THEN /\ dialog' = { [s EXCEPT !.values = values, !.state = "rejected",
                                 !.errors = sheetErrors(s.rubric, values)] }
         /\ UNCHANGED <<store, writes, now, resp>>
    ELSE /\ dialog' = { [s EXCEPT !.values = values, !.state = "posted", !.errors = {}] }
         /\ PostScore(IF isAuthenticated(s.judge) THEN s.judge ELSE Anonymous,
                      [slotId |-> s.slotId, teamId |-> s.teamId, stationId |-> s.stationId,
                       judgeId |-> s.judge, scores |-> values])
  /\ UNCHANGED <<calls, slotForm>>

\* ------------------------------------------------------------------ CSV export
RECURSIVE SumOver(_, _)
\* Object.values(sheet).reduce((sum, val) => sum + val, 0)
SumOver(sheet, names) ==
  IF names = {} THEN 0
  ELSE LET n == CHOOSE x \in names : TRUE
       IN sheet[n] + SumOver(sheet, names \ {n})
SheetTotal(sheet) == SumOver(sheet, DOMAIN sheet)

RECURSIVE SumTotals(_)
SumTotals(scs) ==
  IF scs = {} THEN 0
  ELSE LET s == CHOOSE x \in scs : TRUE
       IN SheetTotal(s.scores) + SumTotals(scs \ {s})

\* teamScores.get(t.id) || 0 over the event's scores
calculatedScore(teamId, eventId) ==
  SumTotals({ s \in getScores(eventId) : s.teamId = teamId })

\* teams sorted by calculatedScore, descending; the sort is stable and the
\* rows come in id order, so equal scores keep their id order. rank = i + 1
exportRank(tm, eventId) ==
  1 + Cardinality({ x \in getTeams(eventId) :
        \/ calculatedScore(x.id, eventId) > calculatedScore(tm.id, eventId)
        \/ /\ calculatedScore(x.id, eventId) = calculatedScore(tm.id, eventId)
           /\ x.id < tm.id })

ExportTeams ==
  /\ Idle
  /\ \E c \in Callers :
    IF JudgeBlocked(c) THEN Refuse("export.teams", c, NoId, 403)
    ELSE \E eventId \in EventIdInputs :
         Answer("export.teams", c, eventId, getTeams(eventId))

ExportStations ==
  /\ Idle
  /\ \E c \in Callers :
    IF JudgeBlocked(c) THEN Refuse("export.stations", c, NoId, 403)
    ELSE \E eventId \in EventIdInputs :
         Answer("export.stations", c, eventId, getStations(eventId))

ExportResults ==
  /\ Idle
  /\ \E c \in Callers :
    IF JudgeBlocked(c) THEN Refuse("export.results", c, NoId, 403)
    ELSE \E eventId \in EventIdInputs :
         Answer("export.results", c, eventId,
                { [rank |-> exportRank(tm, eventId), teamId |-> tm.id,
                   category |-> tm.category,
                   totalScore |-> calculatedScore(tm.id, eventId)]
                  : tm \in getTeams(eventId) })

\* ------------------------------------------------------------------ leaderboard and results page
\* a total that counts one score per slot
leaderboardTotalPerSlot(teamId, scs) ==
  SumTotals({ s \in scs : /\ s.teamId = teamId
                          /\ \A x \in scs : (x.teamId = teamId /\ x.slotId = s.slotId)
                                              => x.id >= s.id })

\* LeaderboardContent: scores.filter(s => s.teamId === team.id) reduced to
\* the sum of the sums of their values
leaderboardTotal(teamId, scs) == SumTotals({ s \in scs : s.teamId = teamId })

\* results page: the Map teamScores, filled score by score with
\* (teamScores.get(score.teamId) || 0) + total
resultsTeamScores(scs) ==
  [ t \in { s.teamId : s \in scs } |-> SumTotals({ s \in scs : s.teamId = t }) ]
\* teamScores.get(t.id) || 0
resultsTotal(teamId, scs) ==
  IF teamId \in DOMAIN resultsTeamScores(scs) THEN resultsTeamScores(scs)[teamId] ELSE 0

\* what the results page fetches: the judge-scoped lists for a judge, the
\* event's lists for everyone else
resultsScores(c, eventId) ==
  IF Role(c) = "judge" THEN getJudgeScores(eventId, c) ELSE getScores(eventId)
resultsTeams(c, eventId) ==
  IF Role(c) = "judge"
  THEN { t \in getTeams(eventId) : t.id \in getJudgeTeamIds(eventId, c) }
  ELSE getTeams(eventId)

\* a rank that teams with equal totals share
resultsRankShared(tm, tms, scs) ==
  1 + Cardinality({ x \in tms : resultsTotal(x.id, scs) > resultsTotal(tm.id, scs) })

\* results page: teams.filter(t => categoryFilter === "all" || t.category === categoryFilter)
filteredTeams(categoryFilter, tms) ==
  { t \in tms : categoryFilter = "all" \/ t.category = categoryFilter }
\* rankedTeams.indexOf(team) + 1 in the filtered teams sorted by
\* calculatedScore, descending; the sort is stable and the teams come in id
\* order, so equal totals keep their id order
resultsRank(tm, tms, scs) ==
  1 + Cardinality({ x \in tms :
        \/ resultsTotal(x.id, scs) > resultsTotal(tm.id, scs)
        \/ /\ resultsTotal(x.id, scs) = resultsTotal(tm.id, scs)
           /\ x.id < tm.id })

\* leaderboard: the two lists it builds, teamScores filtered by category
leaderboardCategories == { "ElementarySchool", "MiddleSchool" }
leaderboardList(category, tms) == { t \in tms : t.category = category }
\* RankingList: teams.indexOf(team) + 1 in the list sorted by totalPoints,
\* descending (stable, as above)
leaderboardRank(tm, tms, scs) ==
  1 + Cardinality({ x \in tms :
        \/ leaderboardTotal(x.id, scs) > leaderboardTotal(tm.id, scs)
        \/ /\ leaderboardTotal(x.id, scs) = leaderboardTotal(tm.id, scs)
           /\ x.id < tm.id })

\* ---- results page: stationWinners
\* the station's scores in the fetched list
stationScores(stationId, scs) == { s \in scs : s.stationId = stationId }
\* the Map teamTotals: team id -> summed total at the station
teamTotals(stationId, scs) ==
  [ t \in { s.teamId : s \in stationScores(stationId, scs) } |->
      SumTotals({ s \in stationScores(stationId, scs) : s.teamId = t }) ]
\* a Map is walked in the order its keys were first set: the order in which
\* the teams first appear in the score list (scores come in id order)
firstSet(t, stationId, scs) ==
  CHOOSE i \in { s.id : s \in stationScores(stationId, scs) } :
    /\ \E s \in stationScores(stationId, scs) : s.id = i /\ s.teamId = t
    /\ \A s \in stationScores(stationId, scs) : s.teamId = t => i <= s.id
\* bestTeamId after the walk with `if (score > bestScore)`, from
\* bestTeamId = 0 and bestScore = 0: the first team to hold the largest
\* total, when that total is above 0
bestTeamId(stationId, scs) ==
  LET tt == teamTotals(stationId, scs)
      best == { t \in DOMAIN tt : /\ tt[t] > 0
                                  /\ \A u \in DOMAIN tt : tt[u] <= tt[t]
                                  /\ \A u \in DOMAIN tt :
                                       tt[u] = tt[t] =>
                                         firstSet(t, stationId, scs) <= firstSet(u, stationId, scs) }
  IN IF best = {} THEN NoId ELSE CHOOSE t \in best : TRUE

\* any team, whatever the scores
winnerTeamAny(stationId, tms, scs) ==
  IF tms = {} THEN {} ELSE { CHOOSE t \in tms : TRUE }

\* winnerTeam = teams.find(t => t.id === bestTeamId): the team, or none
winnerTeam(stationId, tms, scs) == { t \in tms : t.id = bestTeamId(stationId, scs) }

\* ------------------------------------------------------------------ CSV import
\* number of rows an import carries
ImportSizeInputs == { 2 }

ImportTeams ==
  /\ Idle
  /\ \E c \in Callers :
    IF JudgeBlocked(c) THEN Refuse("import.teams", c, NoId, 403)
    ELSE \E eventId \in EventIdInputs, n \in ImportSizeInputs, category \in CategoryInputs :
         LET created == { [id |-> nextId.teams + i, eventId |-> eventId,
                           category |-> category] : i \in 0..(n - 1) }
         IN /\ CanWrite
            /\ teams' = teams \cup created
            /\ nextId' = [nextId EXCEPT !.teams = @ + n]
            /\ Respond("import.teams", c, eventId, 201, created)
            /\ UNCHANGED <<users, events, stations, slots, scores, authorizedEmails>>
            /\ Written

ImportStations ==
  /\ Idle
  /\ \E c \in Callers :
    IF JudgeBlocked(c) THEN Refuse("import.stations", c, NoId, 403)
    ELSE \E eventId \in EventIdInputs, n \in ImportSizeInputs, rubric \in RubricInputs :
         LET created == { [id |-> nextId.stations + i, eventId |-> eventId,
                           rubric |-> rubric] : i \in 0..(n - 1) }
         IN /\ CanWrite
            /\ stations' = stations \cup created
            /\ nextId' = [nextId EXCEPT !.stations = @ + n]
            /\ Respond("import.stations", c, eventId, 201, created)
            /\ UNCHANGED <<users, events, teams, slots, scores, authorizedEmails>>
            /\ Written

\* rows of a judge import: "ok" is created; "missing" lacks name or username
\* and "taken" names an existing username, both are skipped with an error
ImportJudgeData == { <<>>, <<"ok">>, <<"missing", "ok">>, <<"taken">> }
ImportJudges ==
  /\ Idle
  /\ \E c \in Callers, data \in ImportJudgeData :
    IF ~isAuthenticated(c) THEN Refuse("import.judges", c, NoId, 401)
    ELSE IF Role(c) # "admin" /\ Role(c) # "manager" THEN Refuse("import.judges", c, NoId, 403)
    ELSE IF Len(data) = 0 THEN Refuse("import.judges", c, NoId, 400)
    ELSE LET n == Cardinality({ i \in 1..Len(data) : data[i] = "ok" })
             created == { [id |-> nextId.users + i, role |-> "judge"] : i \in 0..(n - 1) }
         IN /\ CanWrite
            /\ users' = users \cup created
            /\ nextId' = [nextId EXCEPT !.users = @ + n]
            /\ Respond("import.judges", c, NoId, 201, created)
            /\ UNCHANGED <<events, stations, teams, slots, scores, authorizedEmails>>
            /\ Written

\* ------------------------------------------------------------------ authorized emails
\* the delete route with its manager check left out
ManagerMayRemoveAny(c, entry) == FALSE

\* userRole === "manager" && emailToDelete.role !== "judge"
ManagerRemovesNonJudge(c, entry) == Role(c) = "manager" /\ entry.role # "judge"

EmailsList ==
  /\ Idle
  /\ \E c \in Callers :
    IF ~isAuthenticated(c) THEN Refuse("emails.list", c, NoId, 401)
    ELSE IF Role(c) # "admin" /\ Role(c) # "manager" THEN Refuse("emails.list", c, NoId, 403)
    ELSE IF Role(c) = "manager"
         THEN Answer("emails.list", c, NoId, { e \in authorizedEmails : e.role = "judge" })
    ELSE Answer("emails.list", c, NoId, authorizedEmails)

\* roles a request body may name ("owner" is none of the allowed values);
\* an email already listed fails the unique constraint and is answered 400
EmailRoleInputs == Roles \cup {"owner"}
RefuseRole(op, c, role, status) ==
  /\ RespondFor(op, c, NoId, role, status, {})
  /\ UNCHANGED <<store, writes, now, dialog, slotForm, calls>>

\* userRole === "manager" && role !== "judge"
ManagerAddsNonJudge(c, role) == Role(c) = "manager" /\ role # "judge"

EmailsCreate ==
  /\ Idle
  /\ \E c \in Callers, role \in EmailRoleInputs, taken \in BOOLEAN :
    IF ~isAuthenticated(c) THEN RefuseRole("emails.create", c, role, 401)
    ELSE IF role \notin {"admin", "manager", "judge"} THEN RefuseRole("emails.create", c, role, 400)
    ELSE IF Role(c) # "admin" /\ Role(c) # "manager" THEN RefuseRole("emails.create", c, role, 403)
    ELSE IF ManagerAddsNonJudge(c, role) THEN RefuseRole("emails.create", c, role, 403)
    ELSE IF taken THEN RefuseRole("emails.create", c, role, 400)
    ELSE LET e == [id |-> nextId.emails, role |-> role, createdBy |-> c]
         IN /\ CanWrite
            /\ authorizedEmails' = authorizedEmails \cup {e}
            /\ Bump("emails")
            /\ RespondFor("emails.create", c, NoId, role, 201, {e})
            /\ UNCHANGED <<users, events, stations, teams, slots, scores>>
            /\ Written

EmailsDelete ==
  /\ Idle
  /\ \E c \in Callers, id \in IdsOf(authorizedEmails, "emails") :
    IF ~isAuthenticated(c) THEN Refuse("emails.delete", c, id, 401)
    ELSE IF ~\E e \in authorizedEmails : e.id = id THEN Refuse("emails.delete", c, id, 404)
    ELSE IF ManagerRemovesNonJudge(c, CHOOSE e \in authorizedEmails : e.id = id)
         THEN Refuse("emails.delete", c, id, 403)
    ELSE IF Role(c) # "admin" /\ Role(c) # "manager" THEN Refuse("emails.delete", c, id, 403)
    ELSE /\ CanWrite
         /\ authorizedEmails' = { e \in authorizedEmails : e.id # id }
         /\ Respond("emails.delete", c, id, 204, {})
         /\ UNCHANGED <<users, events, stations, teams, slots, scores, nextId>>
         /\ Written

\* ------------------------------------------------------------------ handlers, one storage call at a time
\* Two requests that run side by side: every `await storage...` of a handler
\* is one step, and the steps of the handlers that have started interleave.
\* A call is a started handler: rid numbers the request, pc names the
\* storage call the handler makes next ("done": the answer is written),
\* held is what the handler keeps of the rows it has read, status and out
\* are its answer.
MaxCalls == 2
CallIds == 1 .. MaxCalls
NewCall(rid, op, c, pc, arg, body) ==
  [rid |-> rid, op |-> op, caller |-> c, pc |-> pc, arg |-> arg, body |-> body,
   held |-> {}, status |-> 0, out |-> {}]
FreeCallIds == { rid \in CallIds : ~\E k \in calls : k.rid = rid }
\* the call moves on
Step(k, pc) == calls' = (calls \ {k}) \cup { [k EXCEPT !.pc = pc] }
StepHolding(k, pc, held) ==
  calls' = (calls \ {k}) \cup { [k EXCEPT !.pc = pc, !.held = held] }
\* res.status(status).json(out)
Finish(k, status, out) ==
  calls' = (calls \ {k}) \cup { [k EXCEPT !.pc = "done", !.status = status, !.out = out] }

\* ---- POST /api/scores
\* the sheets two judges fill in for the same slot
SubmittedSheetInputs == { [Speed |-> 10, Accuracy |-> 8, Innovation |-> 5],
                          [Speed |-> 7, Accuracy |-> 9, Innovation |-> 4] }
\* the dashboard sends the slot's ids, the user's own id and the sheet; a
\* manager's or admin's request names a judge
SubmissionInputs(c) ==
  { [slotId |-> s.id, teamId |-> s.teamId, stationId |-> s.stationId,
     judgeId |-> IF JudgeBlocked(c) THEN c ELSE 4, scores |-> sheet]
    : s \in slots, sheet \in SubmittedSheetInputs }

\* an insert that keeps one score per slot
insertScoreOnePerSlot(rows, sc) == { r \in rows : r.slotId # sc.slotId } \cup {sc}

\* db.insert(scores).values(score).returning()
insertScore(rows, sc) == rows \cup {sc}

\* the request arrives; a judge's request reads the slot first
ScoreStart ==
  /\ \E rid \in FreeCallIds, c \in Callers : \E body \in SubmissionInputs(c) :
       calls' = calls \cup
         { NewCall(rid, "scores.create", c,
                   IF JudgeBlocked(c) THEN "getSlotById" ELSE "insert",
                   body.slotId, body) }
  /\ UNCHANGED <<store, writes, now, resp, dialog, slotForm>>

\* storage.getSlotById(req.body.slotId) and the assignment check
ScoreGetSlot ==
  /\ \E k \in calls :
    /\ k.op = "scores.create" /\ k.pc = "getSlotById"
    /\ IF JudgeAssignedToSlot(k.caller, k.body.slotId)
       THEN Step(k, "insert")
       ELSE Finish(k, 403, {})
  /\ UNCHANGED <<store, writes, now, resp, dialog, slotForm>>

\* createScore, first statement: the insert
ScoreInsert ==
  /\ \E k \in calls :
    /\ k.op = "scores.create" /\ k.pc = "insert"
    /\ CanWrite
    /\ LET sc == [id |-> nextId.scores, slotId |-> k.body.slotId,
                  teamId |-> k.body.teamId, stationId |-> k.body.stationId,
                  judgeId |-> k.body.judgeId, scores |-> k.body.scores]
       IN /\ scores' = insertScore(scores, sc)
          /\ Bump("scores")
          /\ StepHolding(k, "update", {sc})
  /\ writes' = writes + 1
  /\ UNCHANGED <<users, events, stations, teams, slots, authorizedEmails,
                 aiFeedbackSessions, now, resp, dialog, slotForm>>

\* createScore, second statement: the slot's status, then the answer
ScoreSetStatus ==
  /\ \E k \in calls :
    /\ k.op = "scores.create" /\ k.pc = "update"
    /\ slots' = PatchRow(slots, k.body.slotId, [status |-> "complete"])
    /\ Finish(k, 201, k.held)
  /\ UNCHANGED <<users, events, stations, teams, scores, authorizedEmails,
                 aiFeedbackSessions, nextId, writes, now, resp, dialog, slotForm>>

\* ---- POST /api/slots/:slotId/ai-session
\* storage.getAiSession: the rows of the slot and judge (the handler takes the
\* first the database returns)
getAiSession(slotId, judgeId) ==
  { s \in aiFeedbackSessions : s.slotId = slotId /\ s.judgeId = judgeId }

\* the request arrives; without a session it is answered 401
AiStart ==
  /\ \E rid \in FreeCallIds, c \in Callers, slotId \in IdsOf(slots, "slots") :
       calls' = calls \cup
         { IF isAuthenticated(c)
           THEN NewCall(rid, "ai.session", c, "getSlotById", slotId, {})
           ELSE [NewCall(rid, "ai.session", c, "done", slotId, {}) EXCEPT !.status = 401] }
  /\ UNCHANGED <<store, writes, now, resp, dialog, slotForm>>

\* storage.getSlotById(slotId): 404 without the slot, 403 unless the slot's
\* judgeIds include the user
AiGetSlot ==
  /\ \E k \in calls :
    /\ k.op = "ai.session" /\ k.pc = "getSlotById"
    /\ IF getSlotById(k.arg) = {} THEN Finish(k, 404, {})
       ELSE IF ~JudgeAssignedToSlot(k.caller, k.arg) THEN Finish(k, 403, {})
       ELSE StepHolding(k, "getAiSession", getSlotById(k.arg))
  /\ UNCHANGED <<store, writes, now, resp, dialog, slotForm>>

\* storage.getAiSession(slotId, judgeId): a session found is the answer
AiLookup ==
  /\ \E k \in calls :
    /\ k.op = "ai.session" /\ k.pc = "getAiSession"
    /\ IF getAiSession(k.arg, k.caller) = {} THEN Step(k, "createAiSession")
       ELSE \E session \in getAiSession(k.arg, k.caller) : Finish(k, 200, {session})
  /\ UNCHANGED <<store, writes, now, resp, dialog, slotForm>>

\* storage.createAiSession({slotId, judgeId, teamId: slot.teamId, stationId:
\* slot.stationId}), with the slot as it was read
AiCreate ==
  /\ \E k \in calls : \E slot \in k.held :
    /\ k.op = "ai.session" /\ k.pc = "createAiSession"
    /\ CanWrite
    /\ LET session == [id |-> nextId.sessions, slotId |-> k.arg, judgeId |-> k.caller,
                       teamId |-> slot.teamId, stationId |-> slot.stationId]
       IN /\ aiFeedbackSessions' = aiFeedbackSessions \cup {session}
          /\ Bump("sessions")
          /\ Finish(k, 200, {session})
  /\ writes' = writes + 1
  /\ UNCHANGED <<users, events, stations, teams, slots, scores, authorizedEmails,
                 now, resp, dialog, slotForm>>

\* ------------------------------------------------------------------ delivery and clock
\* res.json / res.send / res.end: the answer leaves the server; the answer
\* to a posted score sheet closes the sheet when it is a success
\* (onSuccess: onOpenChange(false)) and leaves it open otherwise; the answer
\* to a submitted slot form resets the form when it is a success
\* (onSuccess: resetForm)
Sent ==
  /\ ~Idle
  /\ resp' = NoRequest
  /\ dialog' = IF \E s \in dialog : s.state = "posted"
              THEN (IF resp.status = 201 THEN {}
                    ELSE { [s EXCEPT !.state = "editing"] : s \in dialog })
              ELSE dialog
  /\ slotForm' = IF \E f \in slotForm : f.state = "posted"
                 THEN (IF resp.status \in {200, 201} THEN {}
                       ELSE { [f EXCEPT !.state = "editing"] : f \in slotForm })
                 ELSE slotForm
  /\ UNCHANGED <<store, writes, now, calls>>

Tick ==
  /\ now < MaxTime
  /\ now' = now + 1
  /\ UNCHANGED <<store, writes, resp, dialog, slotForm, calls>>

\* ------------------------------------------------------------------ initial state
\* the database as seedDatabase leaves it
Init ==
  /\ users = SeedUsers
  /\ events = SeedEvents
  /\ stations = SeedStations
  /\ teams = SeedTeams
  /\ slots = SeedSlots
  /\ scores = {}
  /\ authorizedEmails = {}
  /\ nextId = [users |-> 6, events |-> 2, stations |-> 3, teams |-> 3, slots |-> 3,
               scores |-> 1, emails |-> 1, sessions |-> 1]
  /\ writes = 0
  /\ now = SeedNow
  /\ resp = NoRequest
  /\ dialog = {}
  /\ slotForm = {}
  /\ calls = {}
  /\ aiFeedbackSessions = {}

\* ------------------------------------------------------------------ specifications
\* the server: every route of events, judges, stations, teams, slots and
\* scores over the seeded database
Next ==
  \/ EventsList \/ EventsCreate \/ EventsUpdate \/ EventsUpdateJudges
  \/ EventsDelete \/ EventsDuplicate
  \/ JudgesList \/ JudgesWithEvents \/ JudgesCreate \/ JudgesUpdate \/ JudgesDelete
  \/ JudgeEvents \/ JudgeTeams \/ JudgeSlots \/ JudgeScores
  \/ StationsList \/ StationsCreate \/ StationsUpdate \/ StationsDelete
  \/ TeamsList \/ TeamsCreate \/ TeamsUpdate \/ TeamsDelete
  \/ SlotsList \/ SlotsCreate \/ SlotsUpdate \/ SlotsDelete
  \/ ScoresList \/ ScoresCreate
  \/ ExportTeams \/ ExportStations \/ ExportResults
  \/ ImportTeams \/ ImportStations \/ ImportJudges
  \/ Sent

Spec == Init /\ [][Next]_vars

\* the schedule and its scores under a running clock
StatusNext ==
  \/ Tick
  \/ SlotsCreate \/ SlotsUpdate \/ SlotsDelete
  \/ ScoresCreate
  \/ JudgesUpdate \/ JudgesDelete
  \/ StationsDelete
  \/ Sent

SpecStatus == Init /\ [][StatusNext]_vars

\* the authorized-email list
EmailsNext == EmailsList \/ EmailsCreate \/ EmailsDelete \/ Sent

SpecEmails == Init /\ [][EmailsNext]_vars

\* the event list, with the judge updates that make new managers
EventsNext ==
  \/ EventsList \/ EventsCreate \/ EventsUpdate \/ EventsUpdateJudges
  \/ EventsDelete \/ EventsDuplicate
  \/ JudgesUpdate
  \/ Sent

SpecEvents == Init /\ [][EventsNext]_vars

\* the judge dashboard's score sheet over rubric edits and judge reassignment
ScoringNext ==
  \/ OpenSheet \/ SubmitSheet \/ CloseSheet
  \/ StationsUpdate \/ SlotsUpdate
  \/ ExportResults
  \/ Sent

SpecScoring == Init /\ [][ScoringNext]_vars

\* the standings pages over a scored event: three teams of the seeded event
\* in the leaderboard's categories, each with a slot at station 1, each with
\* no score or one score of 0, 5 or 8 points, and station 2 without scores
RankingTeamIds == { 1, 2, 3 }
RankingPointInputs == { 0, 5, 8 }
RankingInit ==
  /\ users = SeedUsers
  /\ events = SeedEvents
  /\ stations = SeedStations
  /\ \E category \in [RankingTeamIds -> leaderboardCategories] :
       teams = { [id |-> i, eventId |-> 1, category |-> category[i]] : i \in RankingTeamIds }
  /\ \E scored \in SUBSET RankingTeamIds, points \in [RankingTeamIds -> RankingPointInputs] :
       /\ slots = { [id |-> i, eventId |-> 1, stationId |-> 1, teamId |-> i,
                     startTime |-> SeedNow - 2, endTime |-> SeedNow - 1,
                     judgeIds |-> {3}, captainJudgeId |-> 3,
                     status |-> IF i \in scored THEN "complete" ELSE "pending"]
                    : i \in RankingTeamIds }
       /\ scores = { [id |-> Cardinality({ j \in scored : j <= i }), slotId |-> i,
                      teamId |-> i, stationId |-> 1, judgeId |-> 3,
                      scores |-> [Speed |-> points[i], Accuracy |-> 0, Innovation |-> 0]]
                     : i \in scored }
       /\ nextId = [users |-> 6, events |-> 2, stations |-> 3, teams |-> 4, slots |-> 4,
                    scores |-> Cardinality(scored) + 1, emails |-> 1]
  /\ authorizedEmails = {}
  /\ writes = 0
  /\ now = SeedNow
  /\ resp = NoRequest
  /\ dialog = {}
  /\ slotForm = {}
  /\ calls = {}
  /\ aiFeedbackSessions = {}

\* what the pages fetch, and the export
RankingNext ==
  \/ TeamsList \/ ScoresList \/ StationsList
  \/ ExportResults
  \/ Sent

SpecRanking == RankingInit /\ [][RankingNext]_vars

\* the scoring matrix over a schedule in progress: the seeded event with a
\* second slot for team 1 at station 1 (judge2) and a slot for team 2 at
\* station 2 (judge1 and judge2), and any of four scores stored: judge1's for
\* slot 1, judge2's for slot 3, judge1's and judge2's for slot 4
MatrixScoreInputs ==
  { [slotId |-> 1, teamId |-> 1, stationId |-> 1, judgeId |-> 3,
     scores |-> [Speed |-> 10, Accuracy |-> 8, Innovation |-> 5]],
    [slotId |-> 3, teamId |-> 1, stationId |-> 1, judgeId |-> 4,
     scores |-> [Speed |-> 10, Accuracy |-> 8, Innovation |-> 5]],
    [slotId |-> 4, teamId |-> 2, stationId |-> 2, judgeId |-> 3,
     scores |-> [Technique |-> 15, Safety |-> 10]],
    [slotId |-> 4, teamId |-> 2, stationId |-> 2, judgeId |-> 4,
     scores |-> [Technique |-> 15, Safety |-> 10]] }
MatrixInit ==
  /\ users = SeedUsers
  /\ events = SeedEvents
  /\ stations = SeedStations
  /\ teams = SeedTeams
  /\ \E order \in [1..4 -> MatrixScoreInputs], n \in 0..4 :
       /\ \A i \in 1..n, j \in 1..n : i < j => order[i] # order[j]
       /\ scores = { [id |-> i, slotId |-> order[i].slotId, teamId |-> order[i].teamId,
                      stationId |-> order[i].stationId, judgeId |-> order[i].judgeId,
                      scores |-> order[i].scores] : i \in 1..n }
       /\ slots = { [s EXCEPT !.status =
                        IF \E i \in 1..n : order[i].slotId = s.id
                        THEN "complete" ELSE "pending"]
                    : s \in SeedSlots \cup
                        { [id |-> 3, eventId |-> 1, stationId |-> 1, teamId |-> 1,
                           startTime |-> SeedNow + 2, endTime |-> SeedNow + 3,
                           judgeIds |-> {4}, captainJudgeId |-> 4, status |-> "pending"],
                          [id |-> 4, eventId |-> 1, stationId |-> 2, teamId |-> 2,
                           startTime |-> SeedNow + 1, endTime |-> SeedNow + 2,
                           judgeIds |-> {3, 4}, captainJudgeId |-> 3, status |-> "pending"] } }
       /\ nextId = [users |-> 6, events |-> 2, stations |-> 3, teams |-> 3, slots |-> 5,
                    scores |-> n + 1, emails |-> 1]
  /\ authorizedEmails = {}
  /\ writes = 0
  /\ now = SeedNow
  /\ resp = NoRequest
  /\ dialog = {}
  /\ slotForm = {}
  /\ calls = {}
  /\ aiFeedbackSessions = {}

\* the dashboard's queries under a running clock
MatrixNext ==
  \/ Tick
  \/ SlotsList \/ ScoresList \/ JudgesList
  \/ Sent

SpecMatrix == MatrixInit /\ [][MatrixNext]_vars

\* two score submissions side by side: the seeded schedule, slot 1 judged by
\* judge1 alone or by judge1 and judge2 (PUT /api/slots/:id)
SlotJudgeInputs == { {3}, {3, 4} }
SubmissionInit ==
  /\ users = SeedUsers
  /\ events = SeedEvents
  /\ stations = SeedStations
  /\ teams = SeedTeams
  /\ \E js \in SlotJudgeInputs :
       slots = { IF s.id = 1 THEN [s EXCEPT !.judgeIds = js] ELSE s : s \in SeedSlots }
  /\ scores = {}
  /\ authorizedEmails = {}
  /\ nextId = [users |-> 6, events |-> 2, stations |-> 3, teams |-> 3, slots |-> 3,
               scores |-> 1, emails |-> 1, sessions |-> 1]
  /\ writes = 0
  /\ now = SeedNow
  /\ resp = NoRequest
  /\ dialog = {}
  /\ slotForm = {}
  /\ calls = {}
  /\ aiFeedbackSessions = {}

SubmissionNext == ScoreStart \/ ScoreGetSlot \/ ScoreInsert \/ ScoreSetStatus

SpecSubmission == SubmissionInit /\ [][SubmissionNext]_vars

\* the schedule tab's slot form over the seeded event
ScheduleNext ==
  \/ FormNew \/ FormStartEdit \/ FormToggleJudge \/ FormSelectCaptain
  \/ FormSetDuration \/ FormCancel \/ FormSubmit
  \/ Sent

SpecSchedule == Init /\ [][ScheduleNext]_vars

\* two requests for an AI feedback session side by side
AiSessionNext == AiStart \/ AiGetSlot \/ AiLookup \/ AiCreate

SpecAiSession == SubmissionInit /\ [][AiSessionNext]_vars

\* ------------------------------------------------------------------ claims
\* a step that answers a request
Answered == resp' # resp /\ resp'.op # "none"
\* the stored slot a request names lists the caller among its judges
SlotListsCaller(r) == \E s \in slots : s.id = r.arg /\ r.caller \in s.judgeIds

C2_TimeWindowPartition ==
  \A s \in slots :
    LET scs == getScores(s.eventId)
        shown == getSlotStatus(SlotToJson(s), scs)
        before == now < s.startTime
        within == s.startTime <= now /\ now < s.endTime
        after == now >= s.endTime
    IN /\ (~\E sc \in scs : sc.slotId = s.id) =>
            /\ shown = "pending" <=> before
            /\ shown = "ongoing" <=> within
            /\ shown = "behind" <=> after
       /\ before \/ within \/ after
       /\ ~(before /\ within) /\ ~(before /\ after) /\ ~(within /\ after)

C4_JudgeSubmitsOwnSlotsOnly ==
  [][ (Answered /\ resp'.op = "scores.create" /\ resp'.role = "judge") =>
        /\ resp'.status = 201 => SlotListsCaller(resp')
        /\ ~SlotListsCaller(resp') =>
             /\ resp'.status = 403
             /\ scores' = scores
             /\ slots' = slots ]_vars

\* a judge refused on a stored slot that lists another judge, after a score
\* has been accepted
C4_Witness ==
  /\ resp.op = "scores.create" /\ resp.role = "judge" /\ resp.status = 403
  /\ \E s \in slots : s.id = resp.arg /\ s.judgeIds # {} /\ resp.caller \notin s.judgeIds
  /\ \E sc \in scores : \E s \in slots : s.id = sc.slotId /\ sc.judgeId \in s.judgeIds

\* the routes of events, judges, stations, teams, slots and scores
EntityOps ==
  { "events.list", "events.create", "events.update", "events.judges",
    "events.delete", "events.duplicate",
    "judges.list", "judges.withEvents", "judges.create", "judges.update",
    "judges.delete", "judge.events", "judge.teams", "judge.slots", "judge.scores",
    "stations.list", "stations.create", "stations.update", "stations.delete",
    "teams.list", "teams.create", "teams.update", "teams.delete",
    "slots.list", "slots.create", "slots.update", "slots.delete",
    "scores.list", "scores.create",
    "export.teams", "export.stations", "export.results",
    "import.teams", "import.stations", "import.judges" }

\* C5: every request on events, judges, stations, teams, slots and scores
\* made without an authenticated session is refused (401 or 403), returns no
\* stored data and changes no table.
C5_NoAnonymousAccess ==
  [][ (Answered /\ resp'.op \in EntityOps /\ resp'.role = "none") =>
        /\ resp'.status \in {401, 403}
        /\ resp'.body = {}
        /\ store' = store ]_vars

\* list-all, create, update, delete, duplicate, import and export on events,
\* judges, stations, teams and slots
ManagementOps ==
  EntityOps \ { "judge.events", "judge.teams", "judge.slots", "judge.scores",
                "scores.list", "scores.create" }

\* C6 as stated: every management request of a judge is rejected and changes
\* no table, and a judge changes a table only by a score submission for a
\* slot that lists the judge.
C6_JudgeRejectedEverywhere ==
  [][ (Answered /\ resp'.role = "judge") =>
        /\ resp'.op \in ManagementOps =>
             resp'.status \in {401, 403} /\ store' = store
        /\ store' # store =>
             resp'.op = "scores.create" /\ SlotListsCaller(resp') ]_vars

\* C6 (amended): every management request of a judge other than the station
\* list is answered 403 and changes no table; the station list of an event is
\* returned to a judge exactly when the event's judge list names the judge or
\* a slot of the event lists the judge, and is answered 403 otherwise; a
\* judge changes a table only by a score submission for a slot that lists the
\* judge.
C6_JudgeRejectedButStationList ==
  [][ (Answered /\ resp'.role = "judge") =>
        /\ resp'.op \in ManagementOps \ {"stations.list"} =>
             resp'.status = 403 /\ resp'.body = {} /\ store' = store
        /\ resp'.op = "stations.list" =>
             /\ store' = store
             /\ IF \E e \in events :
                     /\ e.id = resp'.arg
                     /\ \/ resp'.caller \in e.judgeIds
                        \/ \E s \in slots : s.eventId = e.id /\ resp'.caller \in s.judgeIds
                THEN resp'.status = 200
                     /\ resp'.body = { st \in stations : st.eventId = resp'.arg }
                ELSE resp'.status = 403 /\ resp'.body = {}
        /\ store' # store =>
             resp'.op = "scores.create" /\ SlotListsCaller(resp') ]_vars

\* a judge refused on a management route over a database that has changed
C6_Witness ==
  /\ resp.role = "judge"
  /\ resp.op \in ManagementOps \ {"stations.list"}
  /\ resp.status = 403
  /\ writes > 0

\* the stored event a request names by its id
EventOps ==
  { "events.update", "events.judges", "events.delete", "events.duplicate",
    "stations.list", "stations.create", "teams.list", "teams.create",
    "slots.list", "slots.create", "scores.list",
    "export.teams", "export.stations", "export.results",
    "import.teams", "import.stations" }

\* C7: a manager's request that names a stored event whose managerId is not
\* the manager's id is rejected and changes no table.
C7_ManagerOwnEventsOnly ==
  [][ (/\ Answered /\ resp'.role = "manager" /\ resp'.op \in EventOps
       /\ \E e \in events : e.id = resp'.arg /\ e.managerId # resp'.caller) =>
        /\ resp'.status \in {401, 403}
        /\ resp'.body = {}
        /\ store' = store ]_vars

\* C8: the event list answered to a manager is a 200 carrying exactly the
\* stored events whose managerId is the manager's id, the empty list when
\* there is none.
C8_ManagerEventList ==
  (resp.op = "events.list" /\ resp.role = "manager") =>
    /\ resp.status = 200
    /\ resp.body = { e \in events : e.managerId = resp.caller }

\* a manager without events is answered 200 and the empty list while events
\* of others are stored
C8_Witness ==
  /\ resp.op = "events.list" /\ resp.role = "manager"
  /\ resp.status = 200 /\ resp.body = {}
  /\ events # {}

\* C9: on the authorized-email routes a judge is refused (400 for a role
\* that is none of the three, 404 for an entry that is not stored, else 403)
\* and changes nothing; a manager who asks for an entry of role admin or manager, or for
\* the removal of an entry whose role is not judge, is answered 403 and
\* changes nothing; the list answered to a manager holds judge-role entries
\* only; and no request of a manager or judge changes the set of entries
\* whose role is not judge.
C9_ManagerConfinedToJudgeEntries ==
  [][ (Answered /\ resp'.op \in {"emails.list", "emails.create", "emails.delete"}) =>
        /\ resp'.role = "judge" =>
             /\ resp'.status \in {400, 403, 404}
             /\ resp'.body = {}
             /\ authorizedEmails' = authorizedEmails
        /\ (resp'.role = "manager" /\ resp'.op = "emails.create"
              /\ resp'.reqRole \in {"admin", "manager"}) =>
             resp'.status = 403 /\ authorizedEmails' = authorizedEmails
        /\ (resp'.role = "manager" /\ resp'.op = "emails.delete"
              /\ \E e \in authorizedEmails : e.id = resp'.arg /\ e.role # "judge") =>
             resp'.status = 403 /\ authorizedEmails' = authorizedEmails
        /\ (resp'.role = "manager" /\ resp'.op = "emails.list") =>
             \A e \in resp'.body : e.role = "judge"
        /\ resp'.role \in {"manager", "judge"} =>
             { e \in authorizedEmails' : e.role # "judge" }
               = { e \in authorizedEmails : e.role # "judge" } ]_vars

\* a manager refused the removal of a stored admin entry
C9_Witness ==
  /\ resp.op = "emails.delete" /\ resp.role = "manager" /\ resp.status = 403
  /\ \E e \in authorizedEmails : e.id = resp.arg /\ e.role = "admin"

\* C10: the judge-scoped scores query never returns to a judge a score that
\* another judge recorded for a stored slot that does not list the caller.
C10_JudgeScoresOwnSlotsOnly ==
  (resp.op = "judge.scores" /\ resp.role = "judge") =>
    \A sc \in resp.body :
      \A s \in slots :
        (s.id = sc.slotId /\ sc.judgeId # resp.caller) => resp.caller \in s.judgeIds

\* C11 as stated: the events answered to a judge are exactly the stored
\* events with a slot that lists the judge, and the station list of an event
\* is answered to a judge only when a slot of the event lists the judge.
C11_EventsFromSlotsOnly ==
  /\ (resp.op = "judge.events" /\ resp.role = "judge") =>
       resp.body = { e \in events :
                       \E s \in slots : s.eventId = e.id /\ resp.caller \in s.judgeIds }
  /\ (resp.op = "stations.list" /\ resp.role = "judge" /\ resp.status = 200) =>
       \E s \in slots : s.eventId = resp.arg /\ resp.caller \in s.judgeIds

\* C11 (amended): the events answered to a judge are exactly the stored
\* events whose own judge list names the judge or that have a slot listing
\* the judge, and the station list of an event is answered to a judge exactly
\* when the event is one of these.
C11_EventsFromJudgeListOrSlots ==
  /\ (resp.op = "judge.events" /\ resp.role = "judge") =>
       /\ resp.status = 200
       /\ resp.body = { e \in events :
                          \/ resp.caller \in e.judgeIds
                          \/ \E s \in slots : s.eventId = e.id /\ resp.caller \in s.judgeIds }
  /\ (resp.op = "stations.list" /\ resp.role = "judge") =>
       (resp.status = 200 <=>
          \E e \in events :
            /\ e.id = resp.arg
            /\ \/ resp.caller \in e.judgeIds
               \/ \E s \in slots : s.eventId = e.id /\ resp.caller \in s.judgeIds)

\* a judge is answered an event whose judge list names the judge while no
\* slot lists the judge, and is not answered another stored event
C11_Witness ==
  /\ resp.op = "judge.events" /\ resp.role = "judge" /\ resp.status = 200
  /\ \E e \in resp.body :
       /\ resp.caller \in e.judgeIds
       /\ ~\E s \in slots : s.eventId = e.id /\ resp.caller \in s.judgeIds
  /\ \E e \in events : e \notin resp.body

\* C12: when the open score sheet is submitted with some value above its
\* criterion's maxPoints, the sheet is rejected, its errors name exactly the
\* offending criteria, no request is sent and no score is created; when
\* every value is at most its criterion's maxPoints (exactly maxPoints
\* included) the sheet is posted without an error and, the slot still
\* listing the judge, the server answers 201 and stores one new score with
\* the sheet's slot, judge and values (403 and no score for a judge the slot
\* no longer lists).
C12_SheetChecksMaxPoints ==
  [][ \A s \in dialog' :
        (dialog' # dialog /\ s.state # "editing") =>
          LET over == { n \in DOMAIN s.rubric : s.values[n] > s.rubric[n] }
              listed == \E sl \in slots : sl.id = s.slotId /\ s.judge \in sl.judgeIds
              isJudge == \E u \in users : u.id = s.judge /\ u.role = "judge"
          IN IF over # {}
             THEN /\ s.state = "rejected"
                  /\ s.errors = over
                  /\ resp' = resp
                  /\ store' = store
             ELSE /\ s.state = "posted"
                  /\ s.errors = {}
                  /\ resp'.op = "scores.create"
                  /\ listed =>
                       /\ resp'.status = 201
                       /\ \E sc \in scores' :
                            /\ sc \notin scores
                            /\ scores' = scores \cup {sc}
                            /\ sc.slotId = s.slotId /\ sc.judgeId = s.judge
                            /\ sc.scores = s.values
                  /\ (~listed /\ isJudge) =>
                       resp'.status = 403 /\ scores' = scores ]_vars

\* a sheet rejected with an error on each of two criteria, after a sheet
\* with every value at exactly its maxPoints was stored
C12_Witness ==
  /\ \E s \in dialog : s.state = "rejected" /\ Cardinality(s.errors) = 2
  /\ \E sc \in scores : \E st \in stations :
       /\ st.id = sc.stationId
       /\ DOMAIN sc.scores = DOMAIN st.rubric
       /\ \A n \in DOMAIN st.rubric : sc.scores[n] = st.rubric[n]

\* C13: every stored score fits the rubric of its station as stored: each
\* criterion name of the score is a criterion of the rubric and each value v
\* has 0 <= v <= that criterion's maxPoints.
C13_StoredScoresFitRubric ==
  \A sc \in scores : \A st \in stations :
    st.id = sc.stationId =>
      \A n \in DOMAIN sc.scores :
        /\ n \in DOMAIN st.rubric
        /\ 0 <= sc.scores[n]
        /\ sc.scores[n] <= st.rubric[n]

RECURSIVE SumPoints(_)
\* the sum of the points of a set of <<score id, criterion, points>> entries
SumPoints(entries) ==
  IF entries = {} THEN 0
  ELSE LET x == CHOOSE y \in entries : TRUE
       IN x[3] + SumPoints(entries \ {x})
\* every criterion value of every score record of the event (the records of
\* the event's stations) whose teamId is the team
TeamPoints(teamId, eventId) ==
  UNION { { <<sc.id, n, sc.scores[n]>> : n \in DOMAIN sc.scores }
          : sc \in { x \in scores : /\ x.teamId = teamId
                                    /\ \E st \in stations :
                                         st.id = x.stationId /\ st.eventId = eventId } }

\* C14: for every event and every team of it, the leaderboard's total, the
\* results page's total (for every viewer that is shown the team, a judge
\* included) and the results export's totalScore are the sum of all
\* criterion values of all score records of the event with the team's id,
\* every record counted, and 0 for a team without records.
C14_OneTotal ==
  \A eventId \in EventIdInputs : \A tm \in getTeams(eventId) :
    /\ leaderboardTotal(tm.id, getScores(eventId)) = SumPoints(TeamPoints(tm.id, eventId))
    /\ \A c \in Callers :
         tm \in resultsTeams(c, eventId) =>
           resultsTotal(tm.id, resultsScores(c, eventId)) = SumPoints(TeamPoints(tm.id, eventId))
    /\ calculatedScore(tm.id, eventId) = SumPoints(TeamPoints(tm.id, eventId))
    /\ (resp.op = "export.results" /\ resp.status = 200 /\ resp.arg = eventId) =>
         \E row \in resp.body :
           row.teamId = tm.id /\ row.totalScore = SumPoints(TeamPoints(tm.id, eventId))
    /\ TeamPoints(tm.id, eventId) = {} => leaderboardTotal(tm.id, getScores(eventId)) = 0

\* the export answers an event in which one team has two score records for
\* the same slot by the same judge and another team has none
C14_Witness ==
  /\ resp.op = "export.results" /\ resp.status = 200
  /\ \E a \in scores, b \in scores :
       /\ a.id # b.id /\ a.slotId = b.slotId /\ a.judgeId = b.judgeId /\ a.teamId = b.teamId
       /\ \E tm \in getTeams(resp.arg) : tm.id = a.teamId
       /\ \E row \in resp.body :
            row.teamId = a.teamId /\ row.totalScore = SheetTotal(a.scores) + SheetTotal(b.scores)
  /\ \E row \in resp.body : row.totalScore = 0 /\ ~\E sc \in scores : sc.teamId = row.teamId

\* C15: on the results page (for every viewer and every category filter
\* that names a category) and in each of the leaderboard's lists, the ranks
\* of the listed teams are exactly 1..n, one team per rank, and a team with a
\* strictly higher total has a strictly smaller rank; so equal totals get
\* distinct adjacent ranks and every lower total comes after them.
C15_PositionalRanking ==
  \A eventId \in EventIdInputs :
    /\ \A c \in Callers : \A category \in { t.category : t \in getTeams(eventId) } :
         LET tms == filteredTeams(category, resultsTeams(c, eventId))
             scs == resultsScores(c, eventId)
         IN /\ { resultsRank(t, tms, scs) : t \in tms } = 1..Cardinality(tms)
            /\ \A a \in tms, b \in tms :
                 resultsTotal(a.id, scs) > resultsTotal(b.id, scs)
                   => resultsRank(a, tms, scs) < resultsRank(b, tms, scs)
    /\ \A category \in leaderboardCategories :
         LET tms == leaderboardList(category, getTeams(eventId))
             scs == getScores(eventId)
         IN /\ { leaderboardRank(t, tms, scs) : t \in tms } = 1..Cardinality(tms)
            /\ \A a \in tms, b \in tms :
                 leaderboardTotal(a.id, scs) > leaderboardTotal(b.id, scs)
                   => leaderboardRank(a, tms, scs) < leaderboardRank(b, tms, scs)

\* the score list is fetched for three teams of one category with totals 5,
\* 8 and 8: the two teams with 8 hold ranks 1 and 2 and the team with 5 holds
\* rank 3, on both pages
C15_Witness ==
  \E category \in leaderboardCategories :
    LET tms == filteredTeams(category, getTeams(1))
        scs == getScores(1)
    IN /\ resp.op = "scores.list" /\ resp.status = 200 /\ resp.body = scs
       /\ Cardinality(tms) = 3
       /\ \E a \in tms, b \in tms, d \in tms :
            /\ a.id # b.id
            /\ resultsTotal(a.id, scs) = 8 /\ resultsTotal(b.id, scs) = 8
            /\ resultsTotal(d.id, scs) = 5
            /\ { resultsRank(a, tms, scs), resultsRank(b, tms, scs) } = { 1, 2 }
            /\ resultsRank(d, tms, scs) = 3
            /\ leaderboardRank(d, leaderboardList(category, getTeams(1)), scs) = 3

\* C16: for every viewer of the results page, a station with no score in
\* the fetched score list has no winner (bestTeamId stays 0 and no team is
\* found for it), also when the viewer's team list is empty.
C16_NoScoresNoWinner ==
  \A eventId \in EventIdInputs : \A c \in Callers : \A st \in getStations(eventId) :
    stationScores(st.id, resultsScores(c, eventId)) = {} =>
      /\ bestTeamId(st.id, resultsScores(c, eventId)) = NoId
      /\ winnerTeam(st.id, resultsTeams(c, eventId), resultsScores(c, eventId)) = {}

\* the station list is fetched for an event in which one station has a
\* winner and another has teams but no score and no winner, while a judge
\* without slots sees no team and no winner at all
C16_Witness ==
  /\ resp.op = "stations.list" /\ resp.status = 200 /\ resp.arg = 1
  /\ winnerTeam(1, getTeams(1), getScores(1)) # {}
  /\ stationScores(2, getScores(1)) = {}
  /\ getTeams(1) # {}
  /\ winnerTeam(2, getTeams(1), getScores(1)) = {}
  /\ resultsTeams(4, 1) = {}
  /\ winnerTeam(1, resultsTeams(4, 1), resultsScores(4, 1)) = {}

\* the station sum of a team: the sum of its scores at the station, 0 without one
StationSum(teamId, stationId, scs) ==
  SumTotals({ s \in stationScores(stationId, scs) : s.teamId = teamId })

\* C17: on the results page a station's reported winner has a station sum
\* strictly above that of every other team, and a team whose station sum is
\* strictly above that of every other team is the reported winner.
C17_WinnerStrictlyHighest ==
  \A eventId \in EventIdInputs : \A st \in getStations(eventId) :
    LET tms == getTeams(eventId)
        scs == getScores(eventId)
    IN /\ \A w \in winnerTeam(st.id, tms, scs) : \A u \in tms :
            u.id # w.id => StationSum(w.id, st.id, scs) > StationSum(u.id, st.id, scs)
       /\ \A t \in tms :
            (\A u \in tms : u.id # t.id =>
               StationSum(t.id, st.id, scs) > StationSum(u.id, st.id, scs))
              => winnerTeam(st.id, tms, scs) = {t}

\* C18: for every event, every team X and every station Y of it, the Team
\* view's cell (X, Y) and the Station view's cell (Y, X), computed from the
\* same fetched slots and scores at the same time, are the same: the same
\* status when the pair has one slot or several, "-" in both when it has none.
C18_TeamAndStationViewAgree ==
  \A eventId \in EventIdInputs : \A X \in getTeams(eventId) : \A Y \in getStations(eventId) :
    /\ teamViewCell(X.id, Y.id, FetchedSlots(eventId), getScores(eventId))
         = stationViewCell(Y.id, X.id, FetchedSlots(eventId), getScores(eventId))
    /\ (~\E s \in getSlots(eventId) : s.teamId = X.id /\ s.stationId = Y.id)
         <=> teamViewCell(X.id, Y.id, FetchedSlots(eventId), getScores(eventId)) = "-"

\* the schedule is fetched with a pair that has two slots, the first without
\* a score and the second scored, beside a pair without a slot
C18_Witness ==
  /\ resp.op = "slots.list" /\ resp.status = 200 /\ resp.arg = 1
  /\ \E a \in slots, b \in slots :
       /\ a.id < b.id /\ a.teamId = b.teamId /\ a.stationId = b.stationId /\ a.eventId = 1
       /\ ~\E sc \in scores : sc.slotId = a.id
       /\ \E sc \in scores : sc.slotId = b.id
       /\ teamViewCell(a.teamId, a.stationId, FetchedSlots(1), getScores(1)) # "complete"
  /\ \E X \in getTeams(1), Y \in getStations(1) :
       stationViewCell(Y.id, X.id, FetchedSlots(1), getScores(1)) = "-"

\* C19: in the Judge view the cell of judge J, team and station is shown
\* for the slot of that team and station that lists J, and is "complete" only
\* if the score list holds a score by J for that slot.
C19_JudgeCellIsJudgeScoped ==
  \A eventId \in EventIdInputs : \A J \in getJudges :
    \A X \in getTeams(eventId) : \A y \in judgeStations(J.id, FetchedSlots(eventId)) :
      judgeViewCell(J.id, X.id, y, FetchedSlots(eventId), getScores(eventId)) = "complete"
        => \E s \in getSlots(eventId) : \E sc \in getScores(eventId) :
             /\ s.teamId = X.id /\ s.stationId = y /\ J.id \in s.judgeIds
             /\ sc.slotId = s.id /\ sc.judgeId = J.id

\* C20: with every score submitted through the judge dashboard's score
\* sheet, at most one score record is stored per slot and judge, a sheet
\* reopened on a scored slot ("Edit Score") included.
C20_OneScorePerSlotAndJudge ==
  \A a \in scores, b \in scores :
    (a.slotId = b.slotId /\ a.judgeId = b.judgeId) => a.id = b.id

\* C21: when two judges assigned to the same slot submit side by side, then
\* however the storage steps of the two submissions interleave, each
\* submission that has made its insert has its own record stored, with the
\* judge id and the values it sent, the two records are different rows, and
\* once both submissions are answered the slot's stored status is "complete".
C21_ConcurrentSubmissionsBothStored ==
  \A a \in calls, b \in calls :
    ( /\ a.rid # b.rid
      /\ a.op = "scores.create" /\ b.op = "scores.create"
      /\ a.body.slotId = b.body.slotId
      /\ JudgeBlocked(a.caller) /\ JudgeBlocked(b.caller)
      /\ JudgeAssignedToSlot(a.caller, a.body.slotId)
      /\ JudgeAssignedToSlot(b.caller, b.body.slotId) )
    => /\ \A k \in {a, b} :
            k.pc \in {"update", "done"}
            => \E sc \in scores :
                 /\ k.held = {sc}
                 /\ sc.slotId = k.body.slotId /\ sc.judgeId = k.caller
                 /\ sc.scores = k.body.scores
       /\ (a.pc \in {"update", "done"} /\ b.pc \in {"update", "done"})
            => a.held # b.held
       /\ (a.pc = "done" /\ b.pc = "done")
            => /\ a.status = 201 /\ b.status = 201
               /\ \A s \in getSlotById(a.body.slotId) : s.status = "complete"

\* judge1 and judge2, both on slot 1, have both been answered, with
\* different sheets
C21_Witness ==
  \E a \in calls, b \in calls :
    /\ a.caller = 3 /\ b.caller = 4
    /\ a.op = "scores.create" /\ b.op = "scores.create"
    /\ a.body.slotId = 1 /\ b.body.slotId = 1
    /\ a.body.scores # b.body.scores
    /\ a.pc = "done" /\ b.pc = "done"
    /\ a.status = 201 /\ b.status = 201
    /\ \E s \in getSlotById(1) : s.judgeIds = {3, 4}

\* C22: every stored score agrees with the slot it references: its team and
\* its station are the slot's, and its judge is one of the slot's judges.
C22_ScoreConsistentWithSlot ==
  \A sc \in scores : \A s \in getSlotById(sc.slotId) :
    /\ sc.teamId = s.teamId
    /\ sc.stationId = s.stationId
    /\ sc.judgeId \in s.judgeIds

\* C23: in every reachable state, a slot's captain judge, where one is set,
\* is one of the slot's assigned judges.
C23_CaptainIsAssignedJudge ==
  \A s \in slots : s.captainJudgeId # NoId => s.captainJudgeId \in s.judgeIds

\* C24: every stored slot ends strictly after it starts.
C24_EndAfterStart ==
  \A s \in slots : s.endTime > s.startTime

\* C25: the slots the manager tracking pages class as "behind" are exactly
\* the slots whose window has elapsed (now >= end) with no score recorded,
\* whatever status is stored with the slot: on the judge tracking page the
\* slots counted behind, on the team tracking page the team/station cells
\* shown behind.
C25_BehindIsElapsedUnscored ==
  \A e \in events :
    LET elapsedUnscored ==
          { s \in getSlots(e.id) :
              now >= s.endTime /\ ~\E sc \in getScores(e.id) : sc.slotId = s.id }
    IN /\ { s.id : s \in overallBehind(FetchedSlots(e.id)) }
            = { s.id : s \in elapsedUnscored }
       /\ \A s \in elapsedUnscored :
            (\E tm \in getTeams(e.id) : tm.id = s.teamId)
            /\ (\E st \in getStations(e.id) : st.id = s.stationId)
            /\ (\A x \in getSlots(e.id) :
                  x.teamId = s.teamId /\ x.stationId = s.stationId => x = s)
            /\ (~\E sc \in getScores(e.id) :
                  sc.teamId = s.teamId /\ sc.stationId = s.stationId)
            => teamStationStatus(s.teamId, s.stationId, FetchedSlots(e.id),
                                 getScores(e.id)) = "behind"

\* C26: every team of an event appears in exactly one of the leaderboard's
\* category rankings, whatever its category.
C26_EveryTeamInOneRanking ==
  \A e \in events : \A tm \in getTeams(e.id) :
    Cardinality({ category \in leaderboardCategories :
                    tm \in leaderboardList(category, getTeams(e.id)) }) = 1

\* C27: a duplication of event E that is answered 201 with the new event E2
\* leaves E2 with as many stations and teams as E has, with one slot for
\* every slot of E whose team and station are E's, each with the times and
\* judges of a slot of E and with a team and a station of E2, and with no
\* score; the stations, teams, slots and scores of E are as they were.
C27_DuplicateIsScoreFreeCopy ==
  [][ (Idle /\ resp'.op = "events.duplicate" /\ resp'.status = 201)
      => \A E \in { e.id : e \in events }, E2 \in { e.id : e \in events' } :
           (resp'.arg = E /\ \E copy \in resp'.body : copy.id = E2) =>
           LET copied == { s \in getSlots(E) :
                             /\ \E tm \in getTeams(E) : tm.id = s.teamId
                             /\ \E st \in getStations(E) : st.id = s.stationId }
           IN /\ E2 # E /\ getEvent(E2) = {} /\ getEvent(E2)' = resp'.body
              /\ getStations(E2) = {} /\ getTeams(E2) = {} /\ getSlots(E2) = {}
              /\ Cardinality(getStations(E2)') = Cardinality(getStations(E))
              /\ Cardinality(getTeams(E2)') = Cardinality(getTeams(E))
              /\ Cardinality(getSlots(E2)') = Cardinality(copied)
              /\ \A n \in getSlots(E2)' :
                   /\ \E tm \in getTeams(E2)' : tm.id = n.teamId
                   /\ \E st \in getStations(E2)' : st.id = n.stationId
                   /\ \E s \in copied :
                        /\ s.startTime = n.startTime /\ s.endTime = n.endTime
                        /\ s.judgeIds = n.judgeIds
              /\ getScores(E2)' = {}
              /\ getStations(E)' = getStations(E) /\ getTeams(E)' = getTeams(E)
              /\ getSlots(E)' = getSlots(E) /\ getScores(E)' = getScores(E)
    ]_vars

\* position of a computed status along pending -> ongoing -> behind, with
\* complete last
StatusRank(status) ==
  CASE status = "pending" -> 0 [] status = "ongoing" -> 1
    [] status = "behind" -> 2 [] status = "complete" -> 3

\* C28: over every step (the clock only advances), the status computed for a
\* slot that the step neither edits nor deletes never moves back: without a
\* score it moves only along pending -> ongoing -> behind, and once it is
\* complete it is complete after every later step.
C28_ComputedStatusMonotone ==
  [][ \A s \in slots \cap slots' :
        StatusRank(getSlotStatus(SlotToJson(s), getScores(s.eventId)))
          <= StatusRank(getSlotStatus(SlotToJson(s), getScores(s.eventId)))'
    ]_vars

\* C29: a judge create, import, update or delete request of a caller who is
\* not an admin grants no privileged role: every user it creates has role
\* "judge", and no user that existed before has become an admin or a manager.
C29_JudgeRoutesGrantNoRole ==
  [][ ( /\ Idle
        /\ resp'.op \in {"judges.create", "import.judges", "judges.update", "judges.delete"}
        /\ resp'.role # "admin" )
      => \A u \in users' :
           IF \E o \in users : o.id = u.id
           THEN u.role \in {"admin", "manager"} => \E o \in users : o.id = u.id /\ o.role = u.role
           ELSE u.role = "judge"
    ]_vars

\* C30: opening the AI feedback session is get-or-create: at most one session
\* exists for a slot and judge, every answered request of the judge for the
\* slot returns that one session, and a request of a user who is not among
\* the slot's judges creates none.
C30_OneSessionPerSlotAndJudge ==
  /\ \A x \in aiFeedbackSessions, y \in aiFeedbackSessions :
       (x.slotId = y.slotId /\ x.judgeId = y.judgeId) => x = y
  /\ \A a \in calls, b \in calls :
       ( /\ a.op = "ai.session" /\ b.op = "ai.session"
         /\ a.caller = b.caller /\ a.arg = b.arg
         /\ a.pc = "done" /\ b.pc = "done" /\ a.status = 200 /\ b.status = 200 )
       => a.out = b.out
  /\ \A x \in aiFeedbackSessions : JudgeAssignedToSlot(x.judgeId, x.slotId)

====
